---- MODULE Spec2Model ----
(***************************************************************************)
(* The client-side analytics Tracker (event queue, flush scheduler and     *)
(* delivery engine) as a state machine.  One Tracker instance, its         *)
(* localStorage mirror, its interval timers and the fetch requests it has  *)
(* issued and that have not resolved yet.                                  *)
(*                                                                         *)
(* A queued event is modelled by its identity: the n-th admitted           *)
(* observation of the storage's lifetime is the number n.                  *)
(***************************************************************************)
EXTENDS Integers, Sequences, FiniteSets, TLC

\* ---------------------------------------------------------------- bounds

\* Observations admitted over a run, rehydrated ones included.
MaxEvents == 3
\* Events found in the durable mirror at construction.
MaxStored == 1
\* Largest configured batchSize.
MaxBatch == 3
\* Live flush timers the model follows (the code keeps at most one).
MaxTimers == 2
\* trackEvent calls counted by one session.
MaxCalls == 3
\* trackPageview calls counted by one session.
MaxPageviews == 1
\* Days the collector's calendar runs through after the first.
MaxDays == 3
\* /pixel requests followed without a restart of the browser's count.
MaxRequests == 8
\* The clock, in minutes, runs from 0 to MaxTime.
MaxTime == 31

\* ------------------------------------------------------- program constants

\* batchSize used when options.batchSize is falsy.
DefaultBatchSize == 10
\* samplingRate used by the draw when options.samplingRate is falsy.
DefaultSamplingRate == 100
\* sessionTimeout, in minutes, used when options.sessionTimeout is falsy.
DefaultSessionTimeout == 30

VARIABLES
    options,          \* this.options (manualFlush is the one field toggled at run time)
    eventQueue,       \* this.eventQueue
    isSending,        \* this.isSending, the in-flight guard
    flushInterval,    \* this.flushInterval is a handle (TRUE) or null (FALSE)
    sessionInterval,  \* this.sessionInterval is a handle (TRUE) or null (FALSE)
    connectionStatus, \* this.connectionStatus
    storedQueue,      \* localStorage['analytics_event_queue']
    userId,           \* this.userId
    storedUserId,     \* localStorage['analytics_user_id']
    sessionData,      \* this.sessionData
    storedSession,    \* localStorage['analytics_session']
    sessionSeq,       \* number of session ids generated so far (the n-th id is n)
    now,              \* Date.now(), in minutes
    loadListener,     \* the 'load' listener of autoTrack is installed and load has not fired
    flushTimers,      \* number of live setInterval timers that call flushEvents
    pending,          \* fetch requests issued and not yet resolved, oldest first
    delivered,        \* batches whose request resolved with response.ok, in order
    dropped,          \* events of unloading batches whose request failed
    nextId,           \* identity the next admitted observation gets
    timestamp,        \* timestamp[id]: the timestamp field of the queued event id
    retry,            \* after a failed non-unloading send, until the next send: the failed
                      \* batch B and the events C admitted while it was in flight
    lastOp,           \* the handler that ran last
    cleanedUp,        \* cleanup() has run on this instance
    tracker,          \* the module-level singleton: "undefined" or "active"
    thrown,           \* the error the last call of an exported function threw, or "none"
    status,           \* the object the last getQueueStatus() returned, as its caller holds it
    script,           \* "free", or the scripted call that ran last with nothing run since
    today,            \* the collector's calendar day (new Date() in the worker)
    lastModified,     \* the Last-Modified the browser holds for /pixel, sent back as
                      \* If-Modified-Since
    analyticsData,    \* hits, new_visitor and bounce of the record the last /pixel wrote
    requests          \* /pixel requests made since the browser's count last restarted

vars == <<options, eventQueue, isSending, flushInterval, sessionInterval,
          connectionStatus, storedQueue, sessionData, storedSession, sessionSeq,
          now, loadListener, userId, storedUserId, flushTimers, pending, delivered,
          dropped, nextId, timestamp, retry, lastOp, cleanedUp, tracker, thrown,
          status, script, today, lastModified, analyticsData, requests>>

\* What the collector and the browser's cache of /pixel hold.
collector == <<today, lastModified, analyticsData, requests>>

\* ---------------------------------------------------------------- helpers

Range(q) == {q[i] : i \in 1..Len(q)}

IsPrefix(p, q) == Len(p) <= Len(q) /\ SubSeq(q, 1, Len(p)) = p

\* <<a, a+1, ..., b>>
Ids(a, b) == [i \in 1..(IF b >= a THEN b - a + 1 ELSE 0) |-> a + i - 1]

RemoveAt(q, i) == SubSeq(q, 1, i - 1) \o SubSeq(q, i + 1, Len(q))

RECURSIVE Flatten(_)
Flatten(bs) == IF bs = <<>> THEN <<>> ELSE Head(bs) \o Flatten(Tail(bs))

\* No failed batch is waiting for its retry.
NoRetry == [B |-> <<>>, C |-> <<>>]

\* The instance together with the parts of its environment its handlers touch.
S == [options |-> options, eventQueue |-> eventQueue, isSending |-> isSending,
      flushInterval |-> flushInterval, sessionInterval |-> sessionInterval,
      connectionStatus |-> connectionStatus, storedQueue |-> storedQueue,
      flushTimers |-> flushTimers, pending |-> pending, nextId |-> nextId,
      retry |-> retry, sessionData |-> sessionData, storedSession |-> storedSession,
      sessionSeq |-> sessionSeq, now |-> now, loadListener |-> loadListener,
      userId |-> userId, storedUserId |-> storedUserId, timestamp |-> timestamp]

Becomes(s) ==
    /\ options' = s.options
    /\ eventQueue' = s.eventQueue
    /\ isSending' = s.isSending
    /\ flushInterval' = s.flushInterval
    /\ sessionInterval' = s.sessionInterval
    /\ connectionStatus' = s.connectionStatus
    /\ storedQueue' = s.storedQueue
    /\ flushTimers' = s.flushTimers
    /\ pending' = s.pending
    /\ nextId' = s.nextId
    /\ retry' = s.retry
    /\ sessionData' = s.sessionData
    /\ storedSession' = s.storedSession
    /\ sessionSeq' = s.sessionSeq
    /\ now' = s.now
    /\ loadListener' = s.loadListener
    /\ userId' = s.userId
    /\ storedUserId' = s.storedUserId
    /\ timestamp' = s.timestamp

\* ------------------------------------------------------------ localStorage

\* JSON.stringify of an array of queued events: the stored string holds an array.
JSONstringify(q) == [kind |-> "array", items |-> q]

StoredAbsent == [kind |-> "absent", items |-> <<>>]
StoredCorrupt == [kind |-> "corrupt", items |-> <<>>]
StoredNonArray == [kind |-> "nonarray", items |-> <<>>]
\* localStorage itself is unavailable: getItem and setItem throw.
StoredUnavailable == [kind |-> "unavailable", items |-> <<>>]

\* localStorage.setItem('analytics_event_queue', v) inside try/catch: the write
\* either lands or throws (storage unavailable, quota) and is swallowed.
setItem(s, v, writeOk) == IF writeOk THEN [s EXCEPT !.storedQueue = v] ELSE s

\* ----------------------------------------------------------------- userId

\* What localStorage holds under 'analytics_user_id'.
UserAbsent == [kind |-> "absent", id |-> ""]
UserStored(id) == [kind |-> "id", id |-> id]
UserUnavailable == [kind |-> "unavailable", id |-> ""]

\* The id the generator makes up from Math.random(): a run constructs one
\* instance, so one name stands for it.
uuid == "u-new"

\* Mutant: the stored id is not looked up.
M_generateUserId_alwaysNew(s, writeOk) ==
    LET s1 == [s EXCEPT !.userId = uuid]
    IN  IF writeOk THEN [s1 EXCEPT !.storedUserId = UserStored(uuid)] ELSE s1

\* generateUserId: the stored id if getItem returns a non-empty string; else
\* a new id, stored if setItem does not throw.
generateUserId(s, writeOk) ==
    IF s.storedUserId.kind = "id" /\ s.storedUserId.id # ""
    THEN [s EXCEPT !.userId = s.storedUserId.id]
    ELSE LET s1 == [s EXCEPT !.userId = uuid]
         IN  IF writeOk THEN [s1 EXCEPT !.storedUserId = UserStored(uuid)] ELSE s1

\* ---------------------------------------------------------------- session

\* JSON.stringify of a session record: the stored string holds that record.
JSONstringifySession(d) == [kind |-> "record", value |-> d]

NoSession == [id |-> 0, startTime |-> 0, lastActivity |-> 0, pageviews |-> 0, events |-> 0]
SessionAbsent == [kind |-> "absent", value |-> NoSession]
SessionCorrupt == [kind |-> "corrupt", value |-> NoSession]
SessionUnavailable == [kind |-> "unavailable", value |-> NoSession]

\* localStorage.setItem('analytics_session', v) inside try/catch.
setSessionItem(s, v, writeOk) == IF writeOk THEN [s EXCEPT !.storedSession = v] ELSE s

sessionTimeoutOf(s) ==
    IF s.options.sessionTimeout = 0 THEN DefaultSessionTimeout ELSE s.options.sessionTimeout

\* Date.now() - lastActivity > sessionTimeoutMs
sessionExpired(s, lastActivity) == s.now - lastActivity > sessionTimeoutOf(s)

\* Mutant: the new record is not stamped with its last activity.
M_createNewSession_noLastActivity(s, writeOk) ==
    LET session == [id |-> s.sessionSeq + 1, startTime |-> s.now, lastActivity |-> 0,
                    pageviews |-> 0, events |-> 0]
        s1 == [s EXCEPT !.sessionSeq = @ + 1, !.sessionData = session]
    IN  setSessionItem(s1, JSONstringifySession(session), writeOk)

createNewSession(s, writeOk) ==
    LET session == [id |-> s.sessionSeq + 1, startTime |-> s.now, lastActivity |-> s.now,
                    pageviews |-> 0, events |-> 0]
        s1 == [s EXCEPT !.sessionSeq = @ + 1, !.sessionData = session]
    IN  setSessionItem(s1, JSONstringifySession(session), writeOk)

updateSession(s, writeOk) ==
    LET s1 == [s EXCEPT !.sessionData.lastActivity = s.now]
    IN  setSessionItem(s1, JSONstringifySession(s1.sessionData), writeOk)

\* Mutant: a stored session is continued however old it is.
M_initializeSession_ignoresExpiry(s, writeOk) ==
    IF s.storedSession.kind = "record"
    THEN [s EXCEPT !.sessionData = s.storedSession.value]
    ELSE createNewSession(s, writeOk)

\* initializeSession: continue the stored session unless it timed out; any
\* failure to read it starts a new one.
initializeSession(s, writeOk) ==
    IF s.storedSession.kind = "record"
    THEN IF sessionExpired(s, s.storedSession.value.lastActivity)
         THEN createNewSession(s, writeOk)
         ELSE [s EXCEPT !.sessionData = s.storedSession.value]
    ELSE createNewSession(s, writeOk)

\* Mutant: the session expires when the gap reaches the timeout.
M_sessionCheck_atLimit(s, writeOk) ==
    IF s.now - s.sessionData.lastActivity >= sessionTimeoutOf(s)
    THEN createNewSession(s, writeOk)
    ELSE s

\* The session timer's callback, once a minute.
sessionCheck(s, writeOk) ==
    IF sessionExpired(s, s.sessionData.lastActivity) THEN createNewSession(s, writeOk) ELSE s

\* ------------------------------------------------------------------ fetch

\* getCommonParams, as far as it reads the instance and the clock.
getCommonParams(s) ==
    [s |-> s.options.siteId, ts |-> s.now, user_id |-> s.userId,
     session_id |-> s.sessionData.id]

\* Mutant: the envelope carries the id of the instance's first session.
M_fetch_firstSession(s, events, isUnloading) ==
    [s EXCEPT !.pending = Append(@, [events |-> events,
                                      siteId |-> s.options.siteId,
                                      userId |-> s.userId,
                                      sessionId |-> 1,
                                      timestamp |-> s.now,
                                      commonParams |-> getCommonParams(s),
                                      unloading |-> isUnloading,
                                      mark |-> s.nextId,
                                      retryOf |-> s.retry]),
              !.retry = NoRetry]

\* fetch(batchEndpoint, {body, keepalive}): the request is in flight until the
\* transport resolves it.  The body carries siteId and the events; mark and
\* retryOf are bookkeeping about the moment of the call: the identity the next
\* admitted observation will get, and the re-queued head this send retries.
fetch(s, events, isUnloading) ==
    [s EXCEPT !.pending = Append(@, [events |-> events,
                                      siteId |-> s.options.siteId,
                                      userId |-> s.userId,
                                      sessionId |-> s.sessionData.id,
                                      timestamp |-> s.now,
                                      commonParams |-> getCommonParams(s),
                                      unloading |-> isUnloading,
                                      mark |-> s.nextId,
                                      retryOf |-> s.retry]),
              !.retry = NoRetry]

\* The collector's POST /batch, as far as its status goes: 400 for a body
\* without siteId or without events.
batchStatus(body) == IF body.siteId = "" \/ Len(body.events) = 0 THEN 400 ELSE 200

\* ------------------------------------------------------------- flushEvents

\* Mutant: the in-flight guard is not consulted.
M_flushEvents_noSendingGuard(s, isUnloading, writeOk) ==
    IF s.connectionStatus = "offline" /\ ~isUnloading THEN s
    ELSE IF Len(s.eventQueue) = 0 THEN s
    ELSE LET s1 == [s EXCEPT !.isSending = TRUE, !.eventQueue = <<>>]
             s2 == IF s1.options.enableOfflineTracking
                   THEN setItem(s1, JSONstringify(<<>>), writeOk)
                   ELSE s1
         IN  fetch(s2, s.eventQueue, isUnloading)

\* Mutant: the live queue is copied for the send and not cleared.
M_flushEvents_noClear(s, isUnloading, writeOk) ==
    IF s.connectionStatus = "offline" /\ ~isUnloading THEN s
    ELSE IF s.isSending \/ Len(s.eventQueue) = 0 THEN s
    ELSE LET s1 == [s EXCEPT !.isSending = TRUE]
             s2 == IF s1.options.enableOfflineTracking
                   THEN setItem(s1, JSONstringify(<<>>), writeOk)
                   ELSE s1
         IN  fetch(s2, s.eventQueue, isUnloading)

\* Mutant: the offline guard is missing.
M_flushEvents_noOfflineGuard(s, isUnloading, writeOk) ==
    IF s.isSending \/ Len(s.eventQueue) = 0 THEN s
    ELSE LET s1 == [s EXCEPT !.isSending = TRUE, !.eventQueue = <<>>]
             s2 == IF s1.options.enableOfflineTracking
                   THEN setItem(s1, JSONstringify(<<>>), writeOk)
                   ELSE s1
         IN  fetch(s2, s.eventQueue, isUnloading)

\* Mutant: the offline guard makes no exception for an unloading flush.
M_flushEvents_offlineBlocksUnload(s, isUnloading, writeOk) ==
    IF s.connectionStatus = "offline" THEN s
    ELSE IF s.isSending \/ Len(s.eventQueue) = 0 THEN s
    ELSE LET s1 == [s EXCEPT !.isSending = TRUE, !.eventQueue = <<>>]
             s2 == IF s1.options.enableOfflineTracking
                   THEN setItem(s1, JSONstringify(<<>>), writeOk)
                   ELSE s1
         IN  fetch(s2, s.eventQueue, isUnloading)

\* Mutant: the queue is not tested for emptiness.
M_flushEvents_sendsEmpty(s, isUnloading, writeOk) ==
    IF s.connectionStatus = "offline" /\ ~isUnloading THEN s
    ELSE IF s.isSending THEN s
    ELSE LET s1 == [s EXCEPT !.isSending = TRUE, !.eventQueue = <<>>]
             s2 == IF s1.options.enableOfflineTracking
                   THEN setItem(s1, JSONstringify(<<>>), writeOk)
                   ELSE s1
         IN  fetch(s2, s.eventQueue, isUnloading)

\* Mutant: the stored queue is left as it is when the batch is taken.
M_flushEvents_noMirrorClear(s, isUnloading, writeOk) ==
    IF s.connectionStatus = "offline" /\ ~isUnloading THEN s
    ELSE IF s.isSending \/ Len(s.eventQueue) = 0 THEN s
    ELSE LET s1 == [s EXCEPT !.isSending = TRUE, !.eventQueue = <<>>]
         IN  fetch(s1, s.eventQueue, isUnloading)

\* flushEvents(isUnloading) up to its await.
flushEvents(s, isUnloading, writeOk) ==
    IF s.connectionStatus = "offline" /\ ~isUnloading THEN s
    ELSE IF s.isSending \/ Len(s.eventQueue) = 0 THEN s
    ELSE LET eventsToSend == s.eventQueue
             s1 == [s EXCEPT !.isSending = TRUE, !.eventQueue = <<>>]
             s2 == IF s1.options.enableOfflineTracking
                   THEN setItem(s1, JSONstringify(<<>>), writeOk)
                   ELSE s1
         IN  fetch(s2, eventsToSend, isUnloading)

\* Mutant: the failed batch is appended behind the live queue.
M_requeue_append(eventsToSend, queue) == queue \o eventsToSend

\* The failed batch goes back in front of the live queue.
requeue(eventsToSend, queue) == eventsToSend \o queue

\* Mutant: a failed unloading batch is re-queued like any other.
M_flushResolved_requeuesUnloading(s, i, outcome, writeOk) ==
    LET r == s.pending[i]
        s1 == [s EXCEPT !.pending = RemoveAt(@, i)]
        s2 == IF outcome = "ok" THEN s1
              ELSE LET s3 == [s1 EXCEPT !.eventQueue = requeue(r.events, @),
                                        !.retry = [B |-> r.events, C |-> Ids(r.mark, s.nextId - 1)]]
                   IN  IF s3.options.enableOfflineTracking
                       THEN setItem(s3, JSONstringify(s3.eventQueue), writeOk)
                       ELSE s3
    IN  [s2 EXCEPT !.isSending = FALSE]

\* Mutant: the guard is cleared at the end of the try block, not in finally.
M_flushResolved_guardKeptOnFailure(s, i, outcome, writeOk) ==
    LET r == s.pending[i]
        s1 == [s EXCEPT !.pending = RemoveAt(@, i)]
    IN  IF outcome = "ok" THEN [s1 EXCEPT !.isSending = FALSE]
        ELSE IF r.unloading THEN s1
        ELSE LET s3 == [s1 EXCEPT !.eventQueue = requeue(r.events, @),
                                  !.retry = [B |-> r.events, C |-> Ids(r.mark, s.nextId - 1)]]
             IN  IF s3.options.enableOfflineTracking
                 THEN setItem(s3, JSONstringify(s3.eventQueue), writeOk)
                 ELSE s3

\* Mutant: the re-queued events are not written to the stored queue.
M_flushResolved_noRepersist(s, i, outcome, writeOk) ==
    LET r == s.pending[i]
        s1 == [s EXCEPT !.pending = RemoveAt(@, i)]
        s2 == IF outcome = "ok" \/ r.unloading THEN s1
              ELSE [s1 EXCEPT !.eventQueue = requeue(r.events, @),
                              !.retry = [B |-> r.events, C |-> Ids(r.mark, s.nextId - 1)]]
    IN  [s2 EXCEPT !.isSending = FALSE]

\* Mutant: a failed batch is discarded, unloading or not.
M_flushResolved_dropsFailed(s, i, outcome, writeOk) ==
    [s EXCEPT !.pending = RemoveAt(@, i), !.isSending = FALSE]

\* Mutant: the catch block re-queues the batch and flushes again at once.
M_flushResolved_retriesAtOnce(s, i, outcome, writeOk) ==
    LET r == s.pending[i]
        s1 == [s EXCEPT !.pending = RemoveAt(@, i), !.isSending = FALSE]
    IN  IF outcome = "ok" \/ r.unloading THEN s1
        ELSE flushEvents([s1 EXCEPT !.eventQueue = requeue(r.events, @),
                                    !.retry = [B |-> r.events,
                                               C |-> Ids(r.mark, s.nextId - 1)]],
                         FALSE, writeOk)

\* Mutant: the failed batch is put behind the events queued during its send.
M_flushResolved_requeuesBehind(s, i, outcome, writeOk) ==
    LET r == s.pending[i]
        s1 == [s EXCEPT !.pending = RemoveAt(@, i)]
        s2 == IF outcome = "ok" \/ r.unloading THEN s1
              ELSE LET s3 == [s1 EXCEPT !.eventQueue = @ \o r.events,
                                        !.retry = [B |-> r.events, C |-> Ids(r.mark, s.nextId - 1)]]
                   IN  IF s3.options.enableOfflineTracking
                       THEN setItem(s3, JSONstringify(s3.eventQueue), writeOk)
                       ELSE s3
    IN  [s2 EXCEPT !.isSending = FALSE]

\* flushEvents after its await: request i resolved with outcome
\* "ok" | "http_error" | "network_error".
flushResolved(s, i, outcome, writeOk) ==
    LET r == s.pending[i]
        s1 == [s EXCEPT !.pending = RemoveAt(@, i)]
        s2 == IF outcome = "ok" \/ r.unloading THEN s1
              ELSE LET s3 == [s1 EXCEPT !.eventQueue = requeue(r.events, @),
                                        !.retry = [B |-> r.events, C |-> Ids(r.mark, s.nextId - 1)]]
                   IN  IF s3.options.enableOfflineTracking
                       THEN setItem(s3, JSONstringify(s3.eventQueue), writeOk)
                       ELSE s3
    IN  [s2 EXCEPT !.isSending = FALSE]

\* -------------------------------------------------------------- queueEvent

\* Mutant: the rate 0 has no case of its own and falls through to `|| 100`.
M_shouldSampleEvent_noZeroCase(s, draw) ==
    IF s.options.samplingRate = 100 THEN TRUE
    ELSE draw < (IF s.options.samplingRate = 0 THEN DefaultSamplingRate
                 ELSE s.options.samplingRate)

\* Math.random() * 100 < rate, the draw given in percent.
shouldSampleEvent(s, draw) ==
    IF s.options.samplingRate = 100 THEN TRUE
    ELSE IF s.options.samplingRate = 0 THEN FALSE
    ELSE draw < (IF s.options.samplingRate = 0 THEN DefaultSamplingRate
                 ELSE s.options.samplingRate)

\* Mutant: the configured batchSize is ignored.
M_batchSizeOf_defaultOnly(s) == DefaultBatchSize

batchSizeOf(s) == IF s.options.batchSize = 0 THEN DefaultBatchSize ELSE s.options.batchSize

\* Mutant: the threshold test forgets manual-flush mode.
M_thresholdReached_ignoresManual(s) == Len(s.eventQueue) >= batchSizeOf(s)

\* Mutant: the threshold is reached one event late.
M_thresholdReached_strict(s) == ~s.options.manualFlush /\ Len(s.eventQueue) > batchSizeOf(s)

\* The threshold test that ends queueEvent.
thresholdReached(s) == ~s.options.manualFlush /\ Len(s.eventQueue) >= batchSizeOf(s)

\* Mutant: the new event is put at the front of the queue.
M_queueEvent_unshift(s, draw, w1, w2) ==
    IF ~shouldSampleEvent(s, draw) THEN s
    ELSE LET s1 == [s EXCEPT !.eventQueue = <<s.nextId>> \o @, !.nextId = @ + 1,
                             !.timestamp = Append(@, s.now)]
             s2 == IF s1.options.enableOfflineTracking
                   THEN setItem(s1, JSONstringify(s1.eventQueue), w1)
                   ELSE s1
         IN  IF thresholdReached(s2) THEN flushEvents(s2, FALSE, w2) ELSE s2

\* Mutant: the storage write is outside any try, and its exception ends the call.
M_queueEvent_writeFailureAborts(s, draw, w1, w2) ==
    IF ~shouldSampleEvent(s, draw) THEN s
    ELSE LET s1 == [s EXCEPT !.eventQueue = Append(@, s.nextId), !.nextId = @ + 1,
                             !.timestamp = Append(@, s.now)]
         IN  IF s1.options.enableOfflineTracking /\ ~w1 THEN s1
             ELSE LET s2 == IF s1.options.enableOfflineTracking
                            THEN setItem(s1, JSONstringify(s1.eventQueue), w1)
                            ELSE s1
                  IN  IF thresholdReached(s2) THEN flushEvents(s2, FALSE, w2) ELSE s2

\* Mutant: an observation made while a send is in flight is not queued.
M_queueEvent_blockedWhileSending(s, draw, w1, w2) ==
    IF ~shouldSampleEvent(s, draw) \/ s.isSending THEN s
    ELSE LET s1 == [s EXCEPT !.eventQueue = Append(@, s.nextId), !.nextId = @ + 1,
                             !.timestamp = Append(@, s.now)]
             s2 == IF s1.options.enableOfflineTracking
                   THEN setItem(s1, JSONstringify(s1.eventQueue), w1)
                   ELSE s1
         IN  IF thresholdReached(s2) THEN flushEvents(s2, FALSE, w2) ELSE s2

\* Mutant: the queued event carries no time of its own (0).
M_queueEvent_noTimestamp(s, draw, w1, w2) ==
    IF ~shouldSampleEvent(s, draw) THEN s
    ELSE LET s1 == [s EXCEPT !.eventQueue = Append(@, s.nextId), !.nextId = @ + 1,
                             !.timestamp = Append(@, 0)]
             s2 == IF s1.options.enableOfflineTracking
                   THEN setItem(s1, JSONstringify(s1.eventQueue), w1)
                   ELSE s1
         IN  IF thresholdReached(s2) THEN flushEvents(s2, FALSE, w2) ELSE s2

\* queueEvent: the event (here its identity) is pushed with
\* timestamp: Date.now().
queueEvent(s, draw, w1, w2) ==
    IF ~shouldSampleEvent(s, draw) THEN s
    ELSE LET s1 == [s EXCEPT !.eventQueue = Append(@, s.nextId), !.nextId = @ + 1,
                             !.timestamp = Append(@, s.now)]
             s2 == IF s1.options.enableOfflineTracking
                   THEN setItem(s1, JSONstringify(s1.eventQueue), w1)
                   ELSE s1
         IN  IF thresholdReached(s2) THEN flushEvents(s2, FALSE, w2) ELSE s2

trackEvent(s, draw, w1, w2) ==
    LET s1 == [s EXCEPT !.sessionData.events = @ + 1]
    IN  queueEvent(updateSession(s1, w1), draw, w1, w2)

trackPageview(s, draw, w1, w2) ==
    LET s1 == [s EXCEPT !.sessionData.pageviews = @ + 1]
    IN  queueEvent(updateSession(s1, w1), draw, w1, w2)

\* ----------------------------------------------------------- setManualFlush

\* Mutant: leaving manual mode is not checked before the timer is installed.
M_setManualFlush_alwaysInstalls(s, enabled, writeOk) ==
    LET wasEnabled == s.options.manualFlush
        s1 == [s EXCEPT !.options.manualFlush = enabled]
        s2 == IF ~enabled
              THEN LET s3 == [s1 EXCEPT !.flushInterval = TRUE, !.flushTimers = @ + 1]
                   IN  IF Len(s3.eventQueue) > 0
                       THEN flushEvents(s3, FALSE, writeOk)
                       ELSE s3
              ELSE s1
    IN  IF ~wasEnabled /\ enabled /\ s2.flushInterval
        THEN [s2 EXCEPT !.flushInterval = FALSE, !.flushTimers = @ - 1]
        ELSE s2

setManualFlush(s, enabled, writeOk) ==
    LET wasEnabled == s.options.manualFlush
        s1 == [s EXCEPT !.options.manualFlush = enabled]
        s2 == IF wasEnabled /\ ~enabled
              THEN LET s3 == [s1 EXCEPT !.flushInterval = TRUE, !.flushTimers = @ + 1]
                   IN  IF Len(s3.eventQueue) > 0
                       THEN flushEvents(s3, FALSE, writeOk)
                       ELSE s3
              ELSE s1
    IN  IF ~wasEnabled /\ enabled /\ s2.flushInterval
        THEN [s2 EXCEPT !.flushInterval = FALSE, !.flushTimers = @ - 1]
        ELSE s2

\* ------------------------------------------------------------------ cleanup

cleanup(s, writeOk) ==
    LET s1 == flushEvents(s, TRUE, writeOk)
        s2 == IF s1.flushInterval
              THEN [s1 EXCEPT !.flushInterval = FALSE, !.flushTimers = @ - 1]
              ELSE s1
    IN  IF s2.sessionInterval THEN [s2 EXCEPT !.sessionInterval = FALSE] ELSE s2

\* ----------------------------------------------------------- getQueueStatus

\* No status object has been returned yet.
NoStatus == [queueLength |-> 0, events |-> <<>>, sameArray |-> FALSE,
             connectionStatus |-> "online", manualFlush |-> FALSE]

\* Mutant: `events` is this.eventQueue itself.
M_getQueueStatus_liveReference(s) ==
    [queueLength |-> Len(s.eventQueue), events |-> s.eventQueue, sameArray |-> TRUE,
     connectionStatus |-> s.connectionStatus, manualFlush |-> s.options.manualFlush]

\* The instance's getQueueStatus(): `events` is a fresh array holding the
\* queue's elements, so it is not the array this.eventQueue refers to.
getQueueStatus(s) ==
    [queueLength |-> Len(s.eventQueue), events |-> s.eventQueue, sameArray |-> FALSE,
     connectionStatus |-> s.connectionStatus, manualFlush |-> s.options.manualFlush]

\* What the caller reads in status.events: the array it was given, which is
\* the live queue when the two are one array.
StatusEvents == IF status.sameArray THEN eventQueue ELSE status.events

\* -------------------------------------------------------------- constructor

\* Mutant: the stored queue is never read.
M_initBatchProcessing_noRehydrate(s) ==
    IF ~s.options.manualFlush
    THEN [s EXCEPT !.flushInterval = TRUE, !.flushTimers = @ + 1]
    ELSE s

\* Mutant: the stored array is taken last element first.
M_initBatchProcessing_reversed(s) ==
    LET q == s.storedQueue.items
        s1 == IF s.storedQueue.kind = "array"
              THEN [s EXCEPT !.eventQueue = [i \in 1..Len(q) |-> q[Len(q) + 1 - i]]]
              ELSE s
    IN  IF ~s1.options.manualFlush
        THEN [s1 EXCEPT !.flushInterval = TRUE, !.flushTimers = @ + 1]
        ELSE s1

\* initBatchProcessing: rehydrate, install the flush timer in auto mode.
initBatchProcessing(s) ==
    LET s1 == IF s.storedQueue.kind = "array"
              THEN [s EXCEPT !.eventQueue = s.storedQueue.items]
              ELSE s
    IN  IF ~s1.options.manualFlush
        THEN [s1 EXCEPT !.flushInterval = TRUE, !.flushTimers = @ + 1]
        ELSE s1

initConnectivityTracking(s, onLine) ==
    [s EXCEPT !.connectionStatus = IF onLine THEN "online" ELSE "offline"]

initSessionTracking(s) == [s EXCEPT !.sessionInterval = TRUE]

\* The instance as its field initializers leave it, in an environment `stored`.
fieldInitializers(opts, stored) ==
    [options |-> opts, eventQueue |-> <<>>, isSending |-> FALSE,
     flushInterval |-> FALSE, sessionInterval |-> FALSE,
     connectionStatus |-> "online", storedQueue |-> stored.queue,
     flushTimers |-> 0, pending |-> <<>>,
     nextId |-> stored.nextId, retry |-> NoRetry,
     sessionData |-> NoSession, storedSession |-> stored.session,
     sessionSeq |-> stored.sessionSeq, now |-> stored.now,
     loadListener |-> FALSE, userId |-> "", storedUserId |-> stored.user,
     timestamp |-> stored.timestamp]

\* new Tracker(opts) over a storage holding `stored`, with navigator.onLine and
\* document.readyState as the environment gives them.
constructor(opts, stored, onLine, readyComplete, draw, w1, w2) ==
    LET s0 == initializeSession(generateUserId(fieldInitializers(opts, stored), w1), w1)
        s1 == initSessionTracking(initConnectivityTracking(initBatchProcessing(s0), onLine))
    IN  IF ~opts.autoTrack THEN s1
        ELSE IF readyComplete THEN trackPageview(s1, draw, w1, w2)
        ELSE [s1 EXCEPT !.loadListener = TRUE]

\* ------------------------------------------------------------------ facade

\* The variables of the instance and of the environment its handlers touch.
instanceVars == <<options, eventQueue, isSending, flushInterval, sessionInterval,
                  connectionStatus, storedQueue, sessionData, storedSession,
                  sessionSeq, now, loadListener, userId, storedUserId, flushTimers,
                  pending, nextId, timestamp, retry>>

\* The environment a new instance would find now.
found(s) == [queue |-> s.storedQueue, session |-> s.storedSession,
             user |-> s.storedUserId, timestamp |-> s.timestamp,
             sessionSeq |-> s.sessionSeq, nextId |-> s.nextId, now |-> s.now]

\* What the exported init(opts) throws: its own guard, or the constructor's.
init(t, opts) ==
    IF t = "active" THEN "AlreadyInitialized"
    ELSE IF opts.siteId = "" THEN "SiteIdRequired"
    ELSE "none"

\* Mutant: an exported function calls the tracker without testing it.
M_requireTracker_unguarded(t) == IF t = "undefined" THEN "TypeError" ELSE "none"

\* The guard of the exported trackPageview, trackEvent, flushEvents and
\* setManualFlush: what it throws.
requireTracker(t) == IF t = "undefined" THEN "NotInitialized" ELSE "none"

\* The exported getQueueStatus(): a fixed object when there is no tracker.
exportedGetQueueStatus(t, s) == IF t = "undefined" THEN NoStatus ELSE getQueueStatus(s)

\* Mutant: the exported cleanup keeps the reference to the tracker.
M_exportedCleanup_keepsTracker(t) == t

\* The exported cleanup(): what `tracker` is afterwards.
exportedCleanup(t) == "undefined"

\* Mutant: the exported flushEvents flushes as the unload handler does.
M_exportedFlushEvents_unloading(t, s, writeOk) ==
    IF requireTracker(t) # "none" THEN s ELSE flushEvents(s, TRUE, writeOk)

\* The exported flushEvents(): tracker.flushEvents(), isUnloading defaulted
\* to false.
exportedFlushEvents(t, s, writeOk) ==
    IF requireTracker(t) # "none" THEN s ELSE flushEvents(s, FALSE, writeOk)

\* How the promise of a flushEvents call settles once its request resolved
\* with `outcome`: the catch block takes the rejected fetch and the error
\* thrown for a non-success response, and throws nothing itself.
flushSettled(outcome) == "fulfilled"

\* ------------------------------------------------------- collector: /pixel

\* A Date as the collector uses it: the calendar day and the seconds after that
\* day's midnight; new Date(text) of text that is no date is the invalid date.
NullDate == [kind |-> "null", day |-> 0, sec |-> 0]
InvalidDate == [kind |-> "invalid", day |-> 0, sec |-> 0]
DateOf(d, s) == [kind |-> "date", day |-> d, sec |-> s]
getTime(date) == date.day * 86400 + date.sec

\* The If-Modified-Since header of a request: absent, text that is no date, or
\* the text of a date. Date.toUTCString() writes a date to the second and
\* new Date(text) reads it back; the dates of the collector carry no
\* milliseconds (setHours(0, 0, 0, 0), then setSeconds).
NoHeader == [kind |-> "none", day |-> 0, sec |-> 0]
GarbledHeader == [kind |-> "garbled", day |-> 0, sec |-> 0]
toUTCString(date) == [kind |-> "text", day |-> date.day, sec |-> date.sec]
NewDate(header) ==
    IF header.kind = "text" THEN DateOf(header.day, header.sec) ELSE InvalidDate

\* getMidnightDate(): today at 00:00:00.000.
getMidnightDate(day) == DateOf(day, 0)

\* getNextLastModifiedDate(current): an invalid date counts as null; the later
\* of current (midnight when current is null) and today's midnight, with its
\* seconds set to min(3, seconds + 1).
getNextLastModifiedDate(current, day) ==
    LET midnight == getMidnightDate(day)
        next == IF current.kind = "date" THEN current ELSE midnight
        later == IF getTime(midnight) - getTime(next) > 0 THEN midnight ELSE next
    IN  [later EXCEPT !.sec = IF later.sec + 1 < 3 THEN later.sec + 1 ELSE 3]

\* getBounceValue(hits).
getBounceValue(hits) ==
    IF hits = 1 THEN 1 ELSE IF hits = 2 THEN -1 ELSE 0

\* checkVisitorSession(ifModifiedSince).newVisitor: false only for a header
\* whose date has today's year, month and day of the month. The year, month
\* and day of the invalid date are NaN.
M_checkVisitorSession_alwaysNew(ifModifiedSince, day) == TRUE
checkVisitorSession(ifModifiedSince, day) ==
    ~(/\ ifModifiedSince.kind # "none"
      /\ NewDate(ifModifiedSince).kind = "date"
      /\ NewDate(ifModifiedSince).day = day)

\* handleCacheHeaders(ifModifiedSince).
handleCacheHeaders(ifModifiedSince, day) ==
    LET newVisitor == checkVisitorSession(ifModifiedSince, day)
        nextLastModifiedDate ==
            getNextLastModifiedDate(IF ifModifiedSince.kind # "none"
                                    THEN NewDate(ifModifiedSince)
                                    ELSE NullDate, day)
        hits == IF newVisitor THEN 1 ELSE nextLastModifiedDate.sec
    IN  [hits |-> IF hits > 3 THEN 3 ELSE hits,
         nextLastModifiedDate |-> nextLastModifiedDate]

\* The fields collectCommonAnalyticsData derives from the hit count.
collectCommonAnalyticsData(ifModifiedSince, day) ==
    LET cache == handleCacheHeaders(ifModifiedSince, day)
    IN  [analyticsData |-> [hits |-> cache.hits,
                            new_visitor |-> IF cache.hits = 1 THEN 1 ELSE 0,
                            bounce |-> getBounceValue(cache.hits)],
         nextLastModifiedDate |-> cache.nextLastModifiedDate]

\* No /pixel request has been made: the browser holds no Last-Modified.
NoAnalyticsData == [hits |-> 0, new_visitor |-> 0, bounce |-> 0]
NoPixelRequested ==
    /\ today = 0
    /\ lastModified = NoHeader
    /\ analyticsData = NoAnalyticsData
    /\ requests = 0

\* ------------------------------------------------------------ environment

\* The smallest and the largest batch size.
BatchSizes == {1, MaxBatch}
SamplingRates == {0, 50, 100}
\* Math.random() * 100, one draw below and one above every rate in between.
Draws == {0, 99}
\* What construction may find under 'analytics_event_queue'.  With persistence
\* disabled the instance never writes the key, so it keeps this value for good:
\* there one value that is no array stands for all of them, and the longest
\* array for the shorter ones.
StoredValues(opts) ==
    IF opts.enableOfflineTracking
    THEN {JSONstringify(Ids(1, k)) : k \in 0..MaxStored}
           \cup {StoredAbsent, StoredCorrupt, StoredNonArray, StoredUnavailable}
    ELSE {StoredAbsent, JSONstringify(Ids(1, MaxStored))}
\* Whether a localStorage write lands: it throws when the storage is unavailable.
WriteOutcomes(stored) == {stored.kind # "unavailable"}

\* The batch sizes in every mode at full sampling, the smallest one also
\* with persistence disabled; the other sampling rates with the batch size
\* in between.
Options ==
    [siteId : {"s1"}, batchSize : BatchSizes, manualFlush : BOOLEAN,
     enableOfflineTracking : {TRUE}, samplingRate : {100}, autoTrack : {TRUE},
     sessionTimeout : {DefaultSessionTimeout}]
      \cup [siteId : {"s1"}, batchSize : {1}, manualFlush : BOOLEAN,
            enableOfflineTracking : {FALSE}, samplingRate : {100}, autoTrack : {TRUE},
            sessionTimeout : {DefaultSessionTimeout}]
      \cup [siteId : {"s1"}, batchSize : {2}, manualFlush : BOOLEAN,
            enableOfflineTracking : {TRUE}, samplingRate : SamplingRates \ {100},
            autoTrack : {TRUE}, sessionTimeout : {DefaultSessionTimeout}]

\* What construction finds: the queue key, the session key and the user id
\* key (unavailable with the queue key: they are one localStorage; no user id
\* is stored yet), the session ids handed out so far and the time.  The stored
\* events were queued by an earlier page at time 0.
Storages(queues, sessions, clocks) ==
    {[queue |-> q,
      user |-> IF q.kind = "unavailable" THEN UserUnavailable ELSE UserAbsent,
      session |-> IF q.kind = "unavailable" THEN SessionUnavailable ELSE ss,
      sessionSeq |-> IF q.kind # "unavailable" /\ ss.kind = "record" THEN ss.value.id ELSE 0,
      nextId |-> Len(q.items) + 1,
      timestamp |-> [i \in 1..Len(q.items) |-> 0],
      now |-> c] : q \in queues, ss \in sessions, c \in clocks}

\* The state new Tracker(opts) leaves over one of the given storages, whatever
\* navigator.onLine and document.readyState are.
ConstructedOver(opts, storages) ==
    \E stored \in storages, onLine \in BOOLEAN,
       readyComplete \in BOOLEAN, draw \in Draws :
      \E w1 \in WriteOutcomes(stored.queue), w2 \in WriteOutcomes(stored.queue) :
        LET s == constructor(opts, stored, onLine, readyComplete, draw, w1, w2)
        IN  /\ options = s.options
            /\ eventQueue = s.eventQueue
            /\ isSending = s.isSending
            /\ flushInterval = s.flushInterval
            /\ sessionInterval = s.sessionInterval
            /\ connectionStatus = s.connectionStatus
            /\ storedQueue = s.storedQueue
            /\ flushTimers = s.flushTimers
            /\ pending = s.pending
            /\ nextId = s.nextId
            /\ retry = s.retry
            /\ sessionData = s.sessionData
            /\ storedSession = s.storedSession
            /\ sessionSeq = s.sessionSeq
            /\ now = s.now
            /\ loadListener = s.loadListener
            /\ userId = s.userId
            /\ storedUserId = s.storedUserId
            /\ timestamp = s.timestamp
            /\ NoPixelRequested
            /\ delivered = <<>>
            /\ dropped = {}
            /\ lastOp = "init"
            /\ cleanedUp = FALSE
            /\ tracker = "active"
            /\ thrown = "none"
            /\ status = NoStatus

\* A first visit: no session is stored, and the clock is at 0.
Constructed(opts) ==
    ConstructedOver(opts, Storages(StoredValues(opts), {SessionAbsent}, {0}))

Init == /\ \E opts \in Options : Constructed(opts)
        /\ script = "free"

\* ----------------------------------------------------------------- actions

\* tracker.trackEvent(options), by the application or an auto-track listener
\* (cleanup leaves the listeners installed).
TrackEventCall ==
    /\ \E draw \in Draws, w1 \in WriteOutcomes(storedQueue), w2 \in WriteOutcomes(storedQueue) :
           Becomes(trackEvent(S, draw, w1, w2))
    /\ lastOp' = "trackEvent"
    /\ thrown' = "none"
    /\ UNCHANGED <<collector, delivered, dropped, cleanedUp, tracker, status>>

TrackEvent ==
    /\ nextId <= MaxEvents
    /\ sessionData.events < MaxCalls
    /\ TrackEventCall
    /\ script' = "free"

\* The window's 'load' event, once: () => this.trackPageview().
loadHandler(s, draw, w1, w2) ==
    trackPageview([s EXCEPT !.loadListener = FALSE], draw, w1, w2)

Load ==
    /\ loadListener
    /\ \E draw \in Draws, w1 \in WriteOutcomes(storedQueue), w2 \in WriteOutcomes(storedQueue) :
           Becomes(loadHandler(S, draw, w1, w2))
    /\ lastOp' = "trackPageview"
    /\ script' = "free"
    /\ UNCHANGED <<collector, delivered, dropped, cleanedUp, tracker, thrown, status>>

\* tracker.trackPageview(options), by the application or the history listeners.
TrackPageview ==
    /\ nextId <= MaxEvents
    /\ sessionData.pageviews < MaxPageviews
    /\ \E draw \in Draws, w1 \in WriteOutcomes(storedQueue), w2 \in WriteOutcomes(storedQueue) :
           Becomes(trackPageview(S, draw, w1, w2))
    /\ lastOp' = "trackPageview"
    /\ script' = "free"
    /\ thrown' = "none"
    /\ UNCHANGED <<collector, delivered, dropped, cleanedUp, tracker, status>>

\* A live flush timer ticks: () => this.flushEvents().
TimerTick ==
    /\ flushTimers > 0
    /\ \E w \in WriteOutcomes(storedQueue) : Becomes(flushEvents(S, FALSE, w))
    /\ lastOp' = "timer"
    /\ script' = "free"
    /\ UNCHANGED <<collector, delivered, dropped, cleanedUp, tracker, thrown, status>>

\* Mutant: the online listener only records the state.
M_onlineListener_noFlush(s, w) == [s EXCEPT !.connectionStatus = "online"]

\* The window's 'online' listener.
onlineListener(s, w) ==
    LET s1 == [s EXCEPT !.connectionStatus = "online"]
    IN  IF ~s1.options.manualFlush THEN flushEvents(s1, FALSE, w) ELSE s1

Online ==
    /\ \E w \in WriteOutcomes(storedQueue) : Becomes(onlineListener(S, w))
    /\ lastOp' = "online"
    /\ script' = "free"
    /\ UNCHANGED <<collector, delivered, dropped, cleanedUp, tracker, thrown, status>>

\* The window's 'offline' listener.
offlineListener(s) == [s EXCEPT !.connectionStatus = "offline"]

Offline ==
    /\ Becomes(offlineListener(S))
    /\ lastOp' = "offline"
    /\ script' = "free"
    /\ UNCHANGED <<collector, delivered, dropped, cleanedUp, tracker, thrown, status>>

\* The facade's flushEvents(): tracker.flushEvents().
FlushEvents ==
    /\ ~cleanedUp
    /\ \E w \in WriteOutcomes(storedQueue) : Becomes(exportedFlushEvents(tracker, S, w))
    /\ lastOp' = "flushEvents"
    /\ script' = "free"
    /\ thrown' = "none"
    /\ UNCHANGED <<collector, delivered, dropped, cleanedUp, tracker, status>>

SetManualFlush ==
    /\ ~cleanedUp
    /\ flushTimers < MaxTimers
    /\ \E enabled \in BOOLEAN, w \in WriteOutcomes(storedQueue) : Becomes(setManualFlush(S, enabled, w))
    /\ lastOp' = "setManualFlush"
    /\ script' = "free"
    /\ thrown' = "none"
    /\ UNCHANGED <<collector, delivered, dropped, cleanedUp, tracker, status>>

\* The window's 'beforeunload' listener: () => this.flushEvents(true).
BeforeUnload ==
    /\ \E w \in WriteOutcomes(storedQueue) : Becomes(flushEvents(S, TRUE, w))
    /\ lastOp' = "beforeunload"
    /\ script' = "free"
    /\ UNCHANGED <<collector, delivered, dropped, cleanedUp, tracker, thrown, status>>

Cleanup ==
    /\ ~cleanedUp
    /\ \E w \in WriteOutcomes(storedQueue) : Becomes(cleanup(S, w))
    /\ cleanedUp' = TRUE
    /\ tracker' = exportedCleanup(tracker)
    /\ thrown' = "none"
    /\ lastOp' = "cleanup"
    /\ script' = "free"
    /\ UNCHANGED <<collector, delivered, dropped, status>>

\* The transport resolves request i: response.ok, a non-success status, or a
\* rejected fetch.
Resolve ==
    \E i \in 1..Len(pending), w \in WriteOutcomes(storedQueue),
       outcome \in {"ok", "http_error", "network_error"} :
        /\ Becomes(flushResolved(S, i, outcome, w))
        /\ delivered' = IF outcome = "ok" THEN Append(delivered, pending[i].events)
                        ELSE delivered
        /\ dropped' = IF outcome # "ok" /\ pending[i].unloading
                      THEN dropped \cup Range(pending[i].events)
                      ELSE dropped
        /\ lastOp' = IF outcome = "ok" THEN "resolve_ok"
                     ELSE IF pending[i].unloading THEN "resolve_dropped"
                     ELSE "resolve_requeued"
        /\ script' = "free"
        /\ UNCHANGED <<collector, cleanedUp, tracker, thrown, status>>

\* A first visit whose application calls trackEvent: the only pageview is the
\* automatic one of a document that was complete at construction, and no time
\* passes.  SessionNext adds the clock, the load event and trackPageview calls.
Next ==
    \/ TrackEvent
    \/ TimerTick
    \/ Online
    \/ Offline
    \/ FlushEvents
    \/ SetManualFlush
    \/ BeforeUnload
    \/ Cleanup
    \/ Resolve

Spec == Init /\ [][Next]_vars

\* ------------------------------------------------------ delivery, with fairness

\* Auto mode with the timer installed, over an empty or a filled mirror.
LiveOptions == [siteId : {"s1"}, batchSize : {2}, manualFlush : {FALSE},
                enableOfflineTracking : {TRUE}, samplingRate : {100},
                autoTrack : {TRUE}, sessionTimeout : {DefaultSessionTimeout}]

LiveInit ==
    /\ \E opts \in LiveOptions :
          ConstructedOver(opts, Storages({StoredAbsent, JSONstringify(Ids(1, MaxStored))},
                                         {SessionAbsent}, {0}))
    /\ script = "free"

\* response.ok of a pending request.
ResolveOk == Resolve /\ lastOp' = "resolve_ok"

\* The instance stays in auto mode and is not cleaned up: the application
\* tracks, the connection comes and goes, the page may fire beforeunload.
LiveNext ==
    \/ TrackEvent
    \/ TimerTick
    \/ Online
    \/ Offline
    \/ BeforeUnload
    \/ Resolve

\* setInterval keeps calling the flush (part_000:302-305), every fetch settles,
\* and the collector does not refuse for ever.
LiveSpec ==
    /\ LiveInit
    /\ [][LiveNext]_vars
    /\ WF_vars(TimerTick)
    /\ WF_vars(Resolve)
    /\ SF_vars(ResolveOk)

\* ------------------------------------------------------- scripted scenario

\* init({siteId: 's1', batchSize: 2, manualFlush: false}), everything else at its
\* default (autoTrack true) or with autoTrack off, in every environment; then
\* trackEvent('a') and trackEvent('b') back to back, then anything.
ScenarioOptions == [siteId : {"s1"}, batchSize : {2}, manualFlush : {FALSE},
                    enableOfflineTracking : {TRUE}, samplingRate : {100},
                    autoTrack : BOOLEAN, sessionTimeout : {DefaultSessionTimeout}]

ScenarioInit == /\ \E opts \in ScenarioOptions : Constructed(opts)
                /\ script = "init"

ScriptTrackA == script = "init" /\ TrackEventCall /\ script' = "a"

ScriptTrackB == script = "a" /\ TrackEventCall /\ script' = "b"

ScenarioNext ==
    \/ ScriptTrackA
    \/ ScriptTrackB
    \/ script \in {"b", "free"} /\ TrackEvent
    \/ script \in {"b", "free"} /\ Load
    \/ script \in {"b", "free"} /\ TimerTick
    \/ script \in {"b", "free"} /\ Online
    \/ script \in {"b", "free"} /\ Offline
    \/ script \in {"b", "free"} /\ FlushEvents
    \/ script \in {"b", "free"} /\ SetManualFlush
    \/ script \in {"b", "free"} /\ BeforeUnload
    \/ script \in {"b", "free"} /\ Cleanup
    \/ script \in {"b", "free"} /\ Resolve

ScenarioSpec == ScenarioInit /\ [][ScenarioNext]_vars

\* ---------------------------------------------------- the exported functions

\* The exported functions called in any order, from before init on, on one
\* tracker (the instance cleanup() leaves behind is followed; a second init
\* after it is not).

FacadeOptions == [siteId : {"s1", ""}, batchSize : {2}, manualFlush : BOOLEAN,
                  enableOfflineTracking : {TRUE}, samplingRate : {100},
                  autoTrack : BOOLEAN, sessionTimeout : {DefaultSessionTimeout}]

\* No instance yet: nothing reads these options.
NoOptions == [siteId |-> "", batchSize |-> 0, manualFlush |-> FALSE,
              enableOfflineTracking |-> FALSE, samplingRate |-> 0,
              autoTrack |-> FALSE, sessionTimeout |-> 0]

\* What the first construction may find under the queue key: an array of up
\* to MaxStored + 1 events, or one of the values that are no array.
FacadeQueues ==
    {JSONstringify(Ids(1, k)) : k \in 0..(MaxStored + 1)}
      \cup {StoredAbsent, StoredCorrupt, StoredNonArray, StoredUnavailable}

\* No tracker has been constructed over one of the given storages.
Uninitialized(storages) ==
    /\ \E stored \in storages :
         LET s == fieldInitializers(NoOptions, stored)
         IN  /\ options = s.options
             /\ eventQueue = s.eventQueue
             /\ isSending = s.isSending
             /\ flushInterval = s.flushInterval
             /\ sessionInterval = s.sessionInterval
             /\ connectionStatus = s.connectionStatus
             /\ storedQueue = s.storedQueue
             /\ flushTimers = s.flushTimers
             /\ pending = s.pending
             /\ nextId = s.nextId
             /\ retry = s.retry
             /\ sessionData = s.sessionData
             /\ storedSession = s.storedSession
             /\ sessionSeq = s.sessionSeq
             /\ now = s.now
             /\ loadListener = s.loadListener
             /\ userId = s.userId
             /\ storedUserId = s.storedUserId
             /\ timestamp = s.timestamp
    /\ NoPixelRequested
    /\ delivered = <<>>
    /\ dropped = {}
    /\ lastOp = "none"
    /\ cleanedUp = FALSE
    /\ tracker = "undefined"
    /\ thrown = "none"
    /\ status = NoStatus
    /\ script = "free"

FacadeInit == Uninitialized(Storages(FacadeQueues, {SessionAbsent}, {0}))

\* An instance exists: its listeners are installed.
Exists == tracker = "active" \/ cleanedUp

\* init(opts).
InitCall ==
    /\ ~cleanedUp
    /\ \E opts \in FacadeOptions :
         /\ thrown' = init(tracker, opts)
         /\ IF init(tracker, opts) = "none"
            THEN /\ tracker' = "active"
                 /\ \E onLine \in BOOLEAN, readyComplete \in BOOLEAN, draw \in Draws,
                       w \in WriteOutcomes(storedQueue) :
                        Becomes(constructor(opts, found(S), onLine, readyComplete, draw, w, w))
            ELSE UNCHANGED <<tracker, instanceVars>>
    /\ lastOp' = "init"
    /\ script' = "free"
    /\ UNCHANGED <<collector, delivered, dropped, cleanedUp, status>>

\* trackPageview, trackEvent, flushEvents or setManualFlush throwing in its guard.
GuardThrows ==
    /\ requireTracker(tracker) # "none"
    /\ thrown' = requireTracker(tracker)
    /\ lastOp' \in {"trackPageview", "trackEvent", "flushEvents", "setManualFlush"}
    /\ script' = "free"
    /\ UNCHANGED <<collector, instanceVars, tracker, delivered, dropped, cleanedUp, status>>

\* cleanup() with no tracker does nothing.
CleanupNothing ==
    /\ tracker = "undefined"
    /\ thrown' = "none"
    /\ lastOp' = "cleanup"
    /\ script' = "free"
    /\ UNCHANGED <<collector, instanceVars, tracker, delivered, dropped, cleanedUp, status>>

FacadeNext ==
    \/ InitCall
    \/ GuardThrows
    \/ CleanupNothing
    \/ requireTracker(tracker) = "none" /\ TrackEvent
    \/ requireTracker(tracker) = "none" /\ TrackPageview
    \/ requireTracker(tracker) = "none" /\ FlushEvents
    \/ requireTracker(tracker) = "none" /\ SetManualFlush
    \/ tracker = "active" /\ Cleanup
    \/ Exists /\ Load
    \/ Exists /\ Online
    \/ Exists /\ Offline
    \/ TimerTick
    \/ Resolve

FacadeSpec == FacadeInit /\ [][FacadeNext]_vars

\* ----------------------------------------------------------------- identity

\* The first tracker of a page, over a browser profile that has been here
\* before or not, or whose storage is unavailable.

\* What construction may find under the user id key: nothing, an id an
\* earlier page stored, or an empty string.
StoredUserIds == {UserAbsent, UserStored("u-stored"), UserStored("")}

IdentityStorages ==
    {[st EXCEPT !.user = IF st.queue.kind = "unavailable" THEN UserUnavailable ELSE u] :
        st \in Storages({StoredAbsent, StoredUnavailable, JSONstringify(Ids(1, MaxStored))},
                        {SessionAbsent}, {0}),
        u \in StoredUserIds}

IdentityInit == Uninitialized(IdentityStorages)

IdentityNext ==
    \/ InitCall
    \/ requireTracker(tracker) = "none" /\ TrackEvent
    \/ requireTracker(tracker) = "none" /\ FlushEvents
    \/ requireTracker(tracker) = "none" /\ SetManualFlush
    \/ tracker = "active" /\ Cleanup
    \/ Exists /\ BeforeUnload
    \/ TimerTick
    \/ Resolve

IdentitySpec == IdentityInit /\ [][IdentityNext]_vars

\* ------------------------------------------------------- status snapshots

\* An application that watches the queue: it tracks events, flushes, asks for
\* the status and changes the arrays it is given, up to cleanup() and after.

StatusOptions == [siteId : {"s1"}, batchSize : {2}, manualFlush : BOOLEAN,
                  enableOfflineTracking : {TRUE}, samplingRate : {100},
                  autoTrack : {TRUE}, sessionTimeout : {DefaultSessionTimeout}]

StatusInit ==
    /\ \E opts \in StatusOptions :
         ConstructedOver(opts, Storages({StoredAbsent, JSONstringify(Ids(1, MaxStored))},
                                        {SessionAbsent}, {0}))
    /\ script = "free"

\* getQueueStatus().
GetQueueStatus ==
    /\ status' = exportedGetQueueStatus(tracker, S)
    /\ thrown' = "none"
    /\ lastOp' = "getQueueStatus"
    /\ script' = "free"
    /\ UNCHANGED <<collector, instanceVars, tracker, delivered, dropped, cleanedUp>>

\* The caller changes the events array it was given, once: status.events.pop(),
\* or status.events.push(x) with x = 0, an object of its own.
MutateStatus ==
    /\ Len(status.events) = status.queueLength
    /\ \E m \in {"push", "pop"} :
         /\ m = "push" => Len(StatusEvents) < MaxEvents
         /\ m = "pop" => StatusEvents # <<>>
         /\ LET mutated == IF m = "push" THEN Append(StatusEvents, 0)
                           ELSE SubSeq(StatusEvents, 1, Len(StatusEvents) - 1)
            IN  /\ status' = [status EXCEPT !.events = mutated]
                /\ eventQueue' = IF status.sameArray THEN mutated ELSE eventQueue
    /\ lastOp' = "mutateStatus"
    /\ script' = "free"
    /\ UNCHANGED <<collector, options, isSending, flushInterval, sessionInterval, connectionStatus,
                   storedQueue, sessionData, storedSession, sessionSeq, now,
                   loadListener, userId, storedUserId, flushTimers, pending, nextId,
                   timestamp, retry, tracker, thrown, delivered, dropped, cleanedUp>>

StatusNext ==
    \/ GetQueueStatus
    \/ MutateStatus
    \/ TrackEvent
    \/ FlushEvents
    \/ TimerTick
    \/ Cleanup
    \/ Resolve

StatusSpec == StatusInit /\ [][StatusNext]_vars

\* ------------------------------------------------------ sessions over time

\* Minutes that pass in one go: just under, exactly and just over the timeout.
SessionGaps == {DefaultSessionTimeout - 1, DefaultSessionTimeout, DefaultSessionTimeout + 1}

\* A session an earlier page of the visit left in storage at time 0.
StoredSessions ==
    {SessionAbsent, SessionCorrupt,
     JSONstringifySession([id |-> 1, startTime |-> 0, lastActivity |-> 0,
                           pageviews |-> 1, events |-> 1])}

SessionOptions == [siteId : {"s1"}, batchSize : {2}, manualFlush : {FALSE},
                   enableOfflineTracking : {TRUE}, samplingRate : {100},
                   autoTrack : {TRUE}, sessionTimeout : {DefaultSessionTimeout}]

\* The page opens at once or after the stored session's last activity aged.
SessionInit ==
    /\ \E opts \in SessionOptions :
           ConstructedOver(opts, Storages({StoredAbsent, StoredUnavailable},
                                          StoredSessions, {0} \cup SessionGaps))
    /\ script = "free"

\* Time passes.
Advance ==
    /\ \E d \in SessionGaps :
           /\ now + d <= MaxTime
           /\ Becomes([S EXCEPT !.now = @ + d])
    /\ lastOp' = "advance"
    /\ script' = "free"
    /\ UNCHANGED <<collector, delivered, dropped, cleanedUp, tracker, thrown, status>>

\* The session timer ticks.  setInterval promises no tick before its period has
\* passed and none by any deadline after it: a throttled or suspended page
\* ticks late.
SessionTick ==
    /\ sessionInterval
    /\ \E w \in WriteOutcomes(storedQueue) : Becomes(sessionCheck(S, w))
    /\ lastOp' = "sessionTimer"
    /\ script' = "free"
    /\ UNCHANGED <<collector, delivered, dropped, cleanedUp, tracker, thrown, status>>

\* A click, scroll, keypress or mousemove: () => this.updateSession().
Activity ==
    /\ \E w \in WriteOutcomes(storedQueue) : Becomes(updateSession(S, w))
    /\ lastOp' = "activity"
    /\ script' = "free"
    /\ UNCHANGED <<collector, delivered, dropped, cleanedUp, tracker, thrown, status>>

\* A page of a visit, online, over time: observations, activity, the two timers
\* and the transport.
SessionNext ==
    \/ TrackEvent
    \/ TrackPageview
    \/ Load
    \/ Advance
    \/ SessionTick
    \/ Activity
    \/ TimerTick
    \/ Resolve

SessionSpec == SessionInit /\ [][SessionNext]_vars

\* ------------------------------------------------- the queue while time passes

\* The page opens over an empty mirror or over events an earlier page queued
\* at time 0, at once or later.
StampInit ==
    /\ \E opts \in LiveOptions :
          ConstructedOver(opts, Storages({StoredAbsent, JSONstringify(Ids(1, MaxStored))},
                                         {SessionAbsent}, {0, 1}))
    /\ script = "free"

\* Observations, failures and reconnections at different times.
StampNext ==
    \/ TrackEvent
    \/ Advance
    \/ TimerTick
    \/ Online
    \/ Offline
    \/ Resolve

StampSpec == StampInit /\ [][StampNext]_vars

\* --------------------------------------------------------- facade lifecycle

\* init(opts) after cleanup(): a new instance over the storage as it is.  The
\* instance cleanup() left behind has no request of its own in flight any
\* more; what its listeners still do is not followed.  The constructor may
\* queue the automatic pageview, so the number of observations bounds it.
InitAgain ==
    /\ cleanedUp
    /\ pending = <<>>
    /\ nextId <= MaxEvents
    /\ \E opts \in FacadeOptions :
         /\ thrown' = init(tracker, opts)
         /\ IF init(tracker, opts) = "none"
            THEN /\ tracker' = "active"
                 /\ cleanedUp' = FALSE
                 /\ \E onLine \in BOOLEAN, readyComplete \in BOOLEAN, draw \in Draws,
                       w \in WriteOutcomes(storedQueue) :
                        Becomes(constructor(opts, found(S), onLine, readyComplete, draw, w, w))
            ELSE UNCHANGED <<tracker, instanceVars, cleanedUp>>
    /\ lastOp' = "init"
    /\ script' = "free"
    /\ UNCHANGED <<collector, delivered, dropped, status>>

LifecycleInit == Uninitialized(Storages({StoredAbsent}, {SessionAbsent}, {0}))

\* An application that initializes, tracks, cleans up and initializes again.
LifecycleNext ==
    \/ InitCall
    \/ InitAgain
    \/ GuardThrows
    \/ CleanupNothing
    \/ requireTracker(tracker) = "none" /\ TrackEvent
    \/ requireTracker(tracker) = "none" /\ FlushEvents
    \/ tracker = "active" /\ Cleanup
    \/ tracker = "active" /\ TimerTick
    \/ Resolve

LifecycleSpec == LifecycleInit /\ [][LifecycleNext]_vars

\* ------------------------------------------------------------ manual flushes

ManualOptions == [siteId : {"s1"}, batchSize : {2}, manualFlush : {TRUE},
                  enableOfflineTracking : BOOLEAN, samplingRate : {100},
                  autoTrack : {TRUE}, sessionTimeout : {DefaultSessionTimeout}]

ManualInit ==
    /\ \E opts \in ManualOptions :
          ConstructedOver(opts, Storages({StoredAbsent, StoredUnavailable},
                                         {SessionAbsent}, {0}))
    /\ script = "free"

\* An application that flushes by itself: every send is a flushEvents() call.
ManualNext ==
    \/ TrackEvent
    \/ FlushEvents
    \/ Online
    \/ Offline
    \/ Resolve

ManualSpec == ManualInit /\ [][ManualNext]_vars

\* ---------------------------------------------------- the collector's pixel

\* GET /pixel from the browser, which sends the Last-Modified it holds as
\* If-Modified-Since and keeps the Last-Modified of the response.
Pixel ==
    /\ requests < MaxRequests
    /\ LET data == collectCommonAnalyticsData(lastModified, today)
       IN  /\ analyticsData' = data.analyticsData
           /\ lastModified' = toUTCString(data.nextLastModifiedDate)
    /\ requests' = requests + 1
    /\ lastOp' = "pixel"
    /\ UNCHANGED <<today, instanceVars, tracker, delivered, dropped, cleanedUp,
                   thrown, status, script>>

\* The collector's day ends.
Midnight ==
    /\ today < MaxDays
    /\ today' = today + 1
    /\ requests' = 0
    /\ lastOp' = "midnight"
    /\ UNCHANGED <<lastModified, analyticsData, instanceVars, tracker, delivered,
                   dropped, cleanedUp, thrown, status, script>>

\* The browser drops its cached pixel: its next request carries no header.
ClearCache ==
    /\ lastModified # NoHeader
    /\ lastModified' = NoHeader
    /\ requests' = 0
    /\ lastOp' = "clearCache"
    /\ UNCHANGED <<today, analyticsData, instanceVars, tracker, delivered, dropped,
                   cleanedUp, thrown, status, script>>

\* The validator the browser holds is replaced by text that is no date.
Garble ==
    /\ lastModified # GarbledHeader
    /\ lastModified' = GarbledHeader
    /\ requests' = 0
    /\ lastOp' = "garble"
    /\ UNCHANGED <<today, analyticsData, instanceVars, tracker, delivered, dropped,
                   cleanedUp, thrown, status, script>>

PixelInit == Uninitialized(Storages({StoredAbsent}, {SessionAbsent}, {0}))

PixelNext ==
    \/ Pixel
    \/ Midnight
    \/ ClearCache
    \/ Garble

PixelSpec == PixelInit /\ [][PixelNext]_vars

\* ================================================================== claims

InFlight == UNION {Range(pending[i].events) : i \in 1..Len(pending)}
Delivered == Range(Flatten(delivered))
NoDuplicates(q) == Cardinality(Range(q)) = Len(q)
Ascending(q) == \A i, j \in 1..Len(q) : i < j => q[i] < q[j]
FlushTriggers == {"timer", "trackEvent", "trackPageview", "online", "setManualFlush",
                  "flushEvents", "beforeunload", "cleanup"}

\* C1: at most one batch send is outstanding in every reachable state, and while
\* one is outstanding a flushEvents call, unloading or not, issues no send and
\* changes nothing; neither do the handlers that call it start a second send.
C1_AtMostOneSendOutstanding ==
    /\ Len(pending) <= 1
    /\ pending # <<>> =>
         \A w \in WriteOutcomes(storedQueue) :
             /\ \A u \in BOOLEAN : flushEvents(S, u, w) = S
             /\ \A d \in Draws : queueEvent(S, d, w, w).pending = pending
             /\ LET r == onlineListener(S, w)
                IN  r.pending = pending /\ r.eventQueue = eventQueue
             /\ LET r == cleanup(S, w)
                IN  r.pending = pending /\ r.eventQueue = eventQueue
             /\ \A e \in BOOLEAN :
                    LET r == setManualFlush(S, e, w)
                    IN  r.pending = pending /\ r.eventQueue = eventQueue

\* C1 witness: a timer tick ran online on a non-empty queue while a send was
\* outstanding, and left the queue as it was.
C1_Witness ==
    /\ lastOp = "timer"
    /\ connectionStatus = "online"
    /\ Len(pending) = 1
    /\ eventQueue # <<>>

\* C2: every admitted event is in exactly one of the live queue, the in-flight
\* batch, a successfully delivered batch, or the events dropped by a failed
\* unloading flush; an event admitted during a send is not in that send's batch.
C2_NeverLostNorDoubleSent ==
    /\ Range(eventQueue) \cup InFlight \cup Delivered \cup dropped = 1..(nextId - 1)
    /\ Range(eventQueue) \cap InFlight = {}
    /\ Range(eventQueue) \cap Delivered = {}
    /\ Range(eventQueue) \cap dropped = {}
    /\ InFlight \cap Delivered = {}
    /\ InFlight \cap dropped = {}
    /\ Delivered \cap dropped = {}
    /\ NoDuplicates(eventQueue)
    /\ NoDuplicates(Flatten(delivered))
    /\ NoDuplicates(Flatten([i \in 1..Len(pending) |-> pending[i].events]))
    /\ \A i \in 1..Len(pending) :
           /\ \A e \in Range(pending[i].events) : e < pending[i].mark
           /\ \A e \in Range(eventQueue) : e >= pending[i].mark

\* C2 witness: one event was dropped by a failed unloading flush, one is in
\* flight, and one was enqueued during that send and waits in the live queue.
C2_Witness ==
    /\ dropped # {}
    /\ Len(pending) = 1
    /\ eventQueue # <<>>
    /\ lastOp \in {"trackEvent", "trackPageview"}

\* C3: right after a non-unloading send of B fails, the live queue is B followed
\* by the events C admitted during the send; B ++ C stays the head of the queue
\* until the next send, and that send's batch starts with B ++ C.
C3_FailedBatchRetriedFirst ==
    /\ lastOp = "resolve_requeued" => eventQueue = retry.B \o retry.C
    /\ IsPrefix(retry.B \o retry.C, eventQueue)
    /\ \A i \in 1..Len(pending) :
           IsPrefix(pending[i].retryOf.B \o pending[i].retryOf.C, pending[i].events)

\* C3 witness: a send retries a failed batch B with events C enqueued during
\* the failed send.
C3_Witness ==
    /\ Len(pending) = 1
    /\ pending[1].retryOf.B # <<>>
    /\ pending[1].retryOf.C # <<>>
    /\ pending[1].events = pending[1].retryOf.B \o pending[1].retryOf.C

\* C4: every batch sent, and so every batch delivered, lists its events in the
\* order in which they were admitted.
C4_BatchInEnqueueOrder ==
    /\ \A i \in 1..Len(delivered) : Ascending(delivered[i])
    /\ \A i \in 1..Len(pending) : Ascending(pending[i].events)
    /\ Ascending(eventQueue)

\* C4 witness: a batch of all MaxEvents admitted events was delivered.
C4_Witness ==
    /\ lastOp = "resolve_ok"
    /\ delivered # <<>>
    /\ Len(delivered[Len(delivered)]) >= 3

\* C5: while offline, flushEvents(false) issues no send and leaves queue, mirror
\* and guard (the whole state) unchanged, whatever handler calls it.
C5_OfflineFlushIsNoOp ==
    connectionStatus = "offline" =>
        \A w \in WriteOutcomes(storedQueue) :
            /\ flushEvents(S, FALSE, w) = S
            /\ \A d \in Draws :
                   LET r == queueEvent(S, d, w, w)
                   IN  r.pending = pending /\ r.isSending = isSending
            /\ \A e \in BOOLEAN :
                   LET r == setManualFlush(S, e, w)
                   IN  /\ r.pending = pending
                       /\ r.eventQueue = eventQueue
                       /\ r.storedQueue = storedQueue
                       /\ r.isSending = isSending

\* C5 witness: a timer tick ran offline on a non-empty queue with no send
\* outstanding, and nothing was sent.
C5_Witness ==
    /\ lastOp = "timer"
    /\ connectionStatus = "offline"
    /\ eventQueue # <<>>
    /\ ~isSending
    /\ pending = <<>>

UnloadingOps == {"beforeunload", "cleanup"}
TrackOps == {"trackEvent", "trackPageview"}
LastRequest(s) == s.pending[Len(s.pending)]

\* One more request than before: the whole of `queue`, in order, with the given
\* unloading mark, and the live queue left empty behind the guard.
SendsWholeQueue(r, queue, isUnloading) ==
    /\ Len(r.pending) = Len(pending) + 1
    /\ SubSeq(r.pending, 1, Len(pending)) = pending
    /\ LastRequest(r).events = queue
    /\ LastRequest(r).unloading = isUnloading
    /\ r.eventQueue = <<>>
    /\ r.isSending

\* C6 as stated: an unloading flush sends the pending events whenever the queue
\* is non-empty, so no unloading flush ever leaves events in the queue.
C6_Original_UnloadAlwaysSends ==
    lastOp \in UnloadingOps => eventQueue = <<>>

\* C6 amended: an unloading flush (beforeunload, cleanup) sends the whole queue
\* whenever the queue is non-empty and no send is outstanding, whatever the
\* connectivity and the mode; it leaves events behind only when a send that was
\* already outstanding holds the guard.
C6_UnloadSendsUnlessInFlight ==
    /\ (eventQueue # <<>> /\ ~isSending) =>
           \A w \in WriteOutcomes(storedQueue) :
               /\ SendsWholeQueue(flushEvents(S, TRUE, w), eventQueue, TRUE)
               /\ SendsWholeQueue(cleanup(S, w), eventQueue, TRUE)
    /\ (lastOp \in UnloadingOps /\ eventQueue # <<>>) =>
           /\ isSending
           /\ Len(pending) = 1
           /\ \A e \in Range(eventQueue) : e >= pending[1].mark

\* C6 witness: offline and in manual mode, beforeunload sent the queue.
C6_Witness ==
    /\ lastOp = "beforeunload"
    /\ connectionStatus = "offline"
    /\ options.manualFlush
    /\ Len(pending) = 1
    /\ pending[1].unloading
    /\ pending[1].mark = nextId
    /\ eventQueue = <<>>

\* C7: a step that starts a send and ends in manual-flush mode is an explicit
\* flushEvents call or an unloading flush, never a timer tick, an enqueue or a
\* connectivity event.
C7_ManualModeSendsOnlyOnDemand ==
    [][(options'.manualFlush /\ Len(pending') > Len(pending))
          => lastOp' \in {"flushEvents"} \cup UnloadingOps]_vars

\* C7 witness: in manual mode an enqueue took the queue past batchSize, online
\* and with no send outstanding, and nothing was sent.
C7_Witness ==
    /\ options.manualFlush
    /\ ~cleanedUp
    /\ lastOp \in TrackOps
    /\ connectionStatus = "online"
    /\ Len(eventQueue) > batchSizeOf(S)
    /\ eventQueue[Len(eventQueue)] = nextId - 1
    /\ pending = <<>>
    /\ delivered = <<>>
    /\ flushTimers = 0

\* C8 as stated: in auto mode the enqueue that takes the queue to batchSize or
\* more sends at once, so no enqueue leaves batchSize or more events queued.
C8_Original_ThresholdAlwaysSends ==
    (lastOp \in TrackOps /\ options.samplingRate = 100 /\ ~options.manualFlush)
        => Len(eventQueue) < batchSizeOf(S)

\* C8 amended: in auto mode the enqueue that takes the queue to batchSize or more
\* attempts a flush within the same call: online and with no send outstanding it
\* sends the whole queue, the new event included; offline or behind an
\* outstanding send it sends nothing and the event stays queued.
C8_ThresholdFlushesWhenAble ==
    /\ \A d \in Draws, w \in WriteOutcomes(storedQueue) :
           LET r == queueEvent(S, d, w, w)
               queue == Append(eventQueue, nextId)
           IN  (~options.manualFlush /\ shouldSampleEvent(S, d)
                    /\ Len(queue) >= batchSizeOf(S)) =>
                   IF connectionStatus = "online" /\ ~isSending
                   THEN SendsWholeQueue(r, queue, FALSE)
                   ELSE /\ r.pending = pending
                        /\ r.eventQueue = queue
                        /\ r.isSending = isSending
    /\ (lastOp \in TrackOps /\ options.samplingRate = 100 /\ ~options.manualFlush
            /\ Len(eventQueue) >= batchSizeOf(S)) =>
           connectionStatus = "offline" \/ isSending

\* C8 witness: with batchSize 3 in auto mode the third trackEvent sent the three
\* events, with no timer tick in between.
C8_Witness ==
    /\ lastOp = "trackEvent"
    /\ ~options.manualFlush
    /\ options.samplingRate = 100
    /\ options.batchSize = 3
    /\ Len(pending) = 1
    /\ pending[1].events = <<1, 2, 3>>
    /\ pending[1].mark = nextId
    /\ eventQueue = <<>>
    /\ delivered = <<>>

\* C9 as stated: after init with siteId 's1', batchSize 2, manualFlush false and
\* the other options at their defaults, trackEvent('a') then trackEvent('b')
\* leave exactly one batch sent, of 2 events, with siteId 's1', and an empty queue.
C9_Original_ScenarioAllDefaults ==
    (script = "b" /\ options.autoTrack) =>
        /\ Len(pending) = 1
        /\ Len(pending[1].events) = 2
        /\ pending[1].siteId = "s1"
        /\ Len(eventQueue) = 0

\* C9 amended: when nothing was rehydrated, construction queued no automatic
\* pageview (a and b are the first two observations) and the browser is online,
\* then as the second call returns exactly one batch has been sent, it holds a
\* and b in that order with siteId 's1', and the queue is empty.
C9_ScenarioCleanEnvironment ==
    (script = "b" /\ nextId = 3 /\ connectionStatus = "online") =>
        /\ Len(pending) = 1
        /\ pending[1].events = <<1, 2>>
        /\ pending[1].siteId = "s1"
        /\ ~pending[1].unloading
        /\ Len(eventQueue) = 0
        /\ delivered = <<>>
        /\ dropped = {}

\* C9 witness: the two calls ran in a clean environment and the batch is out.
C9_Witness ==
    /\ script = "b"
    /\ nextId = 3
    /\ connectionStatus = "online"
    /\ options.autoTrack
    /\ Len(pending) = 1
    /\ pending[1].events = <<1, 2>>
    /\ eventQueue = <<>>

\* C10: until cleanup the flush timer is installed exactly when manualFlush is
\* false, and there is never more than one; leaving manual mode installs it and
\* attempts one flush of a non-empty queue; entering manual mode removes it and
\* sends nothing.
C10_TimerIffAutoMode ==
    /\ flushTimers <= 1
    /\ flushInterval = (flushTimers = 1)
    /\ ~cleanedUp => (flushTimers = 1) = ~options.manualFlush
    /\ ~cleanedUp => \A w \in WriteOutcomes(storedQueue) :
           /\ LET r == setManualFlush(S, FALSE, w)
              IN  /\ r.flushTimers = 1 /\ r.flushInterval /\ ~r.options.manualFlush
                  /\ options.manualFlush =>
                         IF eventQueue # <<>> /\ connectionStatus = "online" /\ ~isSending
                         THEN SendsWholeQueue(r, eventQueue, FALSE)
                         ELSE r.pending = pending /\ r.eventQueue = eventQueue
           /\ LET r == setManualFlush(S, TRUE, w)
              IN  /\ r.flushTimers = 0 /\ ~r.flushInterval /\ r.options.manualFlush
                  /\ r.pending = pending /\ r.eventQueue = eventQueue

\* C10 witness: setManualFlush(false) left manual mode with more than batchSize
\* events queued: the timer is installed and the queue was sent at once.
C10_Witness ==
    /\ lastOp = "setManualFlush"
    /\ ~options.manualFlush
    /\ flushTimers = 1
    /\ Len(pending) = 1
    /\ pending[1].mark = nextId
    /\ Len(pending[1].events) > batchSizeOf(S)
    /\ eventQueue = <<>>
    /\ delivered = <<>>
    /\ dropped = {}

\* C11: the offline listener changes the connectivity state and nothing else;
\* the online listener sets it to online and, in auto mode, sends a non-empty
\* queue that has no send in flight at once; in manual mode, on an empty queue
\* or behind an outstanding send it changes nothing else.
C11_ConnectivityTransitions ==
    /\ offlineListener(S) = [S EXCEPT !.connectionStatus = "offline"]
    /\ \A w \in WriteOutcomes(storedQueue) :
           LET r == onlineListener(S, w)
           IN  IF ~options.manualFlush /\ eventQueue # <<>> /\ ~isSending
               THEN /\ r.connectionStatus = "online"
                    /\ SendsWholeQueue(r, eventQueue, FALSE)
                    /\ r.sessionData = sessionData
                    /\ r.flushTimers = flushTimers
               ELSE r = [S EXCEPT !.connectionStatus = "online"]
    /\ lastOp = "offline" => connectionStatus = "offline"
    /\ lastOp = "online" =>
           /\ connectionStatus = "online"
           /\ (~options.manualFlush /\ eventQueue # <<>>) => isSending

\* C11 witness: connectivity came back in auto mode and the two events queued
\* meanwhile, more than batchSize, went out in one batch.
C11_Witness ==
    /\ lastOp = "online"
    /\ ~options.manualFlush
    /\ options.batchSize = 1
    /\ Len(pending) = 1
    /\ Len(pending[1].events) = 2
    /\ pending[1].mark = nextId
    /\ ~pending[1].unloading
    /\ eventQueue = <<>>
    /\ delivered = <<>>

\* C13 as stated: an observation the sampler rejects has no side effects:
\* trackEvent and trackPageview of it leave the queue, the mirror, the session
\* counters, lastActivity and the persisted session unchanged.
C13_Original_RejectedHasNoEffect ==
    \A d \in Draws, w \in WriteOutcomes(storedQueue) :
        ~shouldSampleEvent(S, d) =>
            /\ trackEvent(S, d, w, w) = S
            /\ trackPageview(S, d, w, w) = S

\* The event admitted last is the newest element of the live queue or, when its
\* enqueue reached the threshold, of the batch that enqueue sent.
AppendedTo(r, queue, id) ==
    /\ r.nextId = id + 1
    /\ IF r.pending = pending
       THEN r.eventQueue = Append(queue, id)
       ELSE SendsWholeQueue(r, Append(queue, id), FALSE)

\* C14: with samplingRate 100 every trackEvent and trackPageview appends its
\* observation to the queue, whatever the draw; with samplingRate 0 none does:
\* queue and sends stay as they are, so all events the instance ever holds or
\* sends are the ones it rehydrated.
C14_SamplingBoundaries ==
    /\ options.samplingRate = 100 =>
           \A d \in Draws, w \in WriteOutcomes(storedQueue) :
               /\ AppendedTo(trackEvent(S, d, w, w), eventQueue, nextId)
               /\ AppendedTo(trackPageview(S, d, w, w), eventQueue, nextId)
    /\ options.samplingRate = 0 =>
           /\ \A d \in Draws, w \in WriteOutcomes(storedQueue) :
                  LET r == trackEvent(S, d, w, w)
                      v == trackPageview(S, d, w, w)
                  IN  /\ r.eventQueue = eventQueue /\ r.pending = pending
                      /\ r.nextId = nextId /\ r.storedQueue = storedQueue
                      /\ v.eventQueue = eventQueue /\ v.pending = pending
                      /\ v.nextId = nextId /\ v.storedQueue = storedQueue
           /\ nextId - 1 <= MaxStored
           /\ Len(eventQueue) + Cardinality(InFlight \cup Delivered \cup dropped) = nextId - 1

\* C14 witness: at samplingRate 0 the automatic pageview and two trackEvent
\* calls were counted by the session and nothing was queued or sent.
C14_Witness ==
    /\ options.samplingRate = 0
    /\ lastOp = "trackEvent"
    /\ sessionData.events >= 2
    /\ sessionData.pageviews = 1
    /\ nextId = 1
    /\ eventQueue = <<>>
    /\ pending = <<>>
    /\ delivered = <<>>

\* C18 as stated: after cleanup has returned, no timer tick, online event or
\* beforeunload makes the instance send again or change its queue, its session or
\* the durable storage.
C18_Original_InertAfterCleanup ==
    [][(cleanedUp /\ lastOp' \in {"timer", "online", "beforeunload"}) =>
           /\ pending' = pending
           /\ eventQueue' = eventQueue
           /\ sessionData' = sessionData
           /\ storedQueue' = storedQueue
           /\ storedSession' = storedSession]_vars

\* C20: when a non-unloading send fails, its batch is back at the head of the
\* live queue, and the mirror holds that queue when persistence is enabled and
\* the storage takes the write; when an unloading send fails, queue and mirror
\* stay as they are, and no dropped event is ever queued, in flight or delivered
\* again, nor written to the mirror again.
C20_FailureRequeuesUnlessUnloading ==
    /\ \A i \in 1..Len(pending), w \in WriteOutcomes(storedQueue),
          outcome \in {"http_error", "network_error"} :
           LET r == flushResolved(S, i, outcome, w)
           IN  IF pending[i].unloading
               THEN /\ r.eventQueue = eventQueue
                    /\ r.storedQueue = storedQueue
                    /\ r.pending = RemoveAt(pending, i)
               ELSE /\ r.eventQueue = pending[i].events \o eventQueue
                    /\ r.pending = RemoveAt(pending, i)
                    /\ r.storedQueue = IF options.enableOfflineTracking /\ w
                                       THEN JSONstringify(r.eventQueue)
                                       ELSE storedQueue
    /\ lastOp = "resolve_requeued" =>
           /\ retry.B # <<>>
           /\ IsPrefix(retry.B, eventQueue)
    /\ dropped \cap (Range(eventQueue) \cup InFlight \cup Delivered) = {}
    /\ options.enableOfflineTracking => dropped \cap Range(storedQueue.items) = {}

\* C20 witness: with persistence enabled a failed unloading send dropped its
\* batch while an earlier event had been delivered; queue and mirror are empty.
C20_Witness ==
    /\ lastOp = "resolve_dropped"
    /\ options.enableOfflineTracking
    /\ dropped # {}
    /\ delivered # <<>>
    /\ eventQueue = <<>>
    /\ storedQueue = JSONstringify(<<>>)
    /\ pending = <<>>

\* C12 as stated: an observation made within sessionTimeout minutes of the
\* session's lastActivity is counted in that session; one made later is
\* counted in a new session, with a new id, whose counters hold only it.
C12_Original_StaleObservationStartsNewSession ==
    \A d \in Draws, w \in WriteOutcomes(storedQueue) :
        LET e == trackEvent(S, d, w, w).sessionData
            v == trackPageview(S, d, w, w).sessionData
        IN  IF now - sessionData.lastActivity > sessionTimeoutOf(S)
            THEN /\ e.id # sessionData.id /\ e.events = 1 /\ e.pageviews = 0
                 /\ v.id # sessionData.id /\ v.events = 0 /\ v.pageviews = 1
            ELSE /\ e.id = sessionData.id /\ e.events = sessionData.events + 1
                 /\ v.id = sessionData.id /\ v.pageviews = sessionData.pageviews + 1

\* The queue a new instance would rehydrate from the storage as it is now.
Rehydrated == initBatchProcessing(fieldInitializers(options, found(S))).eventQueue
\* The observations admitted so far, in admission order.
Admitted == Ids(1, nextId - 1)
Without(q, removed) == SelectSeq(q, LAMBDA e : e \notin removed)

C16_ConstructionSurvivesAnyMirror ==
    [][(lastOp' = "init" /\ tracker = "undefined" /\ thrown' # "SiteIdRequired")
         => LET start == IF storedQueue.kind = "array" THEN storedQueue.items ELSE <<>>
                held == Flatten([i \in 1..Len(pending') |-> pending'[i].events])
                          \o eventQueue'
            IN  /\ tracker' = "active"
                /\ thrown' = "none"
                /\ \/ held = start /\ sessionData'.pageviews = 0
                   \/ held = Append(start, nextId) /\ sessionData'.pageviews = 1]_vars

\* init has just completed over a stored value that is not valid JSON.
C16_Witness ==
    /\ lastOp = "init"
    /\ tracker = "active"
    /\ thrown = "none"
    /\ storedQueue.kind = "corrupt"
    /\ eventQueue = <<>>
    /\ flushTimers = 1

ExportedCalls == {"trackPageview", "trackEvent", "flushEvents", "setManualFlush"}

\* C17: init called while a tracker is initialized throws the
\* already-initialized error and leaves the tracker and its state as they
\* are; trackPageview, trackEvent, flushEvents and setManualFlush called
\* before a successful init throw the not-initialized error and change nothing.
C17_FacadeInitializationProtocol ==
    [][/\ (lastOp' = "init" /\ tracker = "active")
           => /\ thrown' = "AlreadyInitialized"
              /\ UNCHANGED <<tracker, instanceVars, delivered, dropped, cleanedUp>>
       /\ (lastOp' \in ExportedCalls /\ tracker = "undefined" /\ ~cleanedUp)
           => /\ thrown' = "NotInitialized"
              /\ UNCHANGED <<tracker, instanceVars, delivered, dropped, cleanedUp>>]_vars

\* A second init was refused while the tracker held an event.
C17_Witness ==
    /\ lastOp = "init"
    /\ thrown = "AlreadyInitialized"
    /\ tracker = "active"
    /\ eventQueue # <<>>

\* C19: getQueueStatus returns the live queue's elements at the time of the
\* call, with queueLength their number; no later operation of the tracker
\* changes the events of a status already returned; and a change the caller
\* makes to the returned events array leaves the tracker's queue as it is.
C19_StatusIsPointInTimeCopy ==
    [][/\ lastOp' = "getQueueStatus"
           => /\ StatusEvents' = (IF tracker = "active" THEN eventQueue ELSE <<>>)
              /\ status'.queueLength = Len(StatusEvents')
              /\ eventQueue' = eventQueue
       /\ lastOp' = "mutateStatus"
           => /\ eventQueue' = eventQueue
              /\ StatusEvents' # StatusEvents
       /\ lastOp' \notin {"getQueueStatus", "mutateStatus"}
           => StatusEvents' = StatusEvents]_vars

\* A status taken when the queue held one event, and still showing it after
\* that event was sent, failed and was put back in front of a later one.
C19_Witness ==
    /\ lastOp = "resolve_requeued"
    /\ tracker = "active"
    /\ status.queueLength = 1
    /\ StatusEvents = <<1>>
    /\ Len(eventQueue) = 2

ResolveOps == {"resolve_ok", "resolve_dropped", "resolve_requeued"}

\* The guard is set exactly while a request is pending, is clear after a
\* resolution, and a clear guard lets an online flush of a non-empty queue send.
GuardTracksSend ==
    /\ isSending <=> pending # <<>>
    /\ lastOp \in ResolveOps => ~isSending
    /\ (~isSending /\ eventQueue # <<>> /\ connectionStatus = "online")
         => \A w \in WriteOutcomes(storedQueue) :
                LET r == flushEvents(S, FALSE, w)
                IN  /\ r.isSending
                    /\ Len(r.pending) = 1
                    /\ r.pending[1].events = eventQueue

\* C24: whenever an issued send resolves, with success, a non-success
\* response or a transport error, unloading or not, the in-flight guard is
\* false afterwards; the guard is true exactly while a send is outstanding;
\* and a flush of a non-empty queue while online and with no send outstanding
\* sends.
C24_GuardClearedOnEveryOutcome == []GuardTracksSend

\* A failed send was re-queued and a later timer tick has sent it again.
C24_Witness ==
    /\ lastOp = "timer"
    /\ isSending
    /\ Len(pending) = 1
    /\ pending[1].retryOf.B # <<>>
    /\ pending[1].events = pending[1].retryOf.B \o pending[1].retryOf.C

\* With a request pending, queueEvent appends and persists the live queue and
\* nothing issues a second request.
SendingAdmits ==
    pending # <<>> =>
        \A w \in WriteOutcomes(storedQueue) :
            /\ \A d \in Draws :
                   LET r == queueEvent(S, d, w, w)
                   IN  shouldSampleEvent(S, d)
                         => /\ r.eventQueue = Append(eventQueue, nextId)
                            /\ r.pending = pending
                            /\ r.isSending
                            /\ Range(r.eventQueue) \cap InFlight = {}
                            /\ (options.enableOfflineTracking /\ w)
                                 => r.storedQueue = JSONstringify(r.eventQueue)
            /\ \A u \in BOOLEAN : flushEvents(S, u, w).pending = pending
            /\ onlineListener(S, w).pending = pending
            /\ cleanup(S, w).pending = pending
            /\ \A e \in BOOLEAN : setManualFlush(S, e, w).pending = pending

\* C25: while a send is outstanding every admitted observation is appended to
\* the live queue, whatever its length; with persistence enabled and the
\* storage available the stored queue becomes exactly that live queue, which
\* holds none of the batch in flight; and no trigger starts a second send.
C25_EnqueueAvailableWhileSending == []SendingAdmits

\* With a send outstanding the queue has grown past the batch size, and the
\* stored queue holds exactly the live queue.
C25_Witness ==
    /\ lastOp = "trackEvent"
    /\ Len(pending) = 1
    /\ ~options.manualFlush
    /\ Len(eventQueue) > batchSizeOf(S)
    /\ options.enableOfflineTracking
    /\ storedQueue = JSONstringify(eventQueue)

\* C26: with persistence enabled and the storage taking writes, every step
\* that changes the live queue (an enqueue, the taking of a batch, the
\* re-insertion of a failed batch) leaves the stored queue equal to the live
\* queue, element for element and in order.
C26_StoredQueueIsFullMirror ==
    [][(options.enableOfflineTracking /\ storedQueue.kind # "unavailable"
          /\ eventQueue' # eventQueue)
         => storedQueue' = JSONstringify(eventQueue')]_vars

\* A failed batch went back in front of events admitted during the send, and
\* the stored queue holds both, in that order.
C26_Witness ==
    /\ lastOp = "resolve_requeued"
    /\ options.enableOfflineTracking
    /\ retry.B # <<>>
    /\ retry.C # <<>>
    /\ eventQueue = retry.B \o retry.C
    /\ storedQueue = JSONstringify(eventQueue)

\* C27: with persistence enabled and the storage available, the step that
\* issues a send leaves the stored queue empty, and while a send is
\* outstanding a new instance would rehydrate none of its events; nor would
\* it ever rehydrate an event that was delivered.
C27_MirrorEmptiedBeforeConfirmation ==
    /\ [][(options.enableOfflineTracking /\ storedQueue.kind # "unavailable"
            /\ Len(pending') > Len(pending))
           => storedQueue' = JSONstringify(<<>>)]_vars
    /\ []((options.enableOfflineTracking /\ storedQueue.kind # "unavailable")
           => /\ Range(Rehydrated) \cap InFlight = {}
              /\ Range(Rehydrated) \cap Delivered = {})

\* A batch of two events is in flight and the stored queue is the empty array.
C27_Witness ==
    /\ options.enableOfflineTracking
    /\ Len(pending) = 1
    /\ Len(pending[1].events) >= 2
    /\ pending[1].mark = nextId
    /\ storedQueue = JSONstringify(<<>>)
    /\ Rehydrated = <<>>

\* An empty queue makes every flush a no-op, and no request is empty.
EmptyQueueSendsNothing ==
    /\ eventQueue = <<>> =>
         \A w \in WriteOutcomes(storedQueue) :
             /\ \A u \in BOOLEAN : flushEvents(S, u, w) = S
             /\ LET r == onlineListener(S, w)
                IN  r.pending = pending /\ r.isSending = isSending
                      /\ r.storedQueue = storedQueue
             /\ LET r == cleanup(S, w)
                IN  r.pending = pending /\ r.isSending = isSending
                      /\ r.storedQueue = storedQueue
             /\ \A e \in BOOLEAN :
                    LET r == setManualFlush(S, e, w)
                    IN  r.pending = pending /\ r.isSending = isSending
                          /\ r.storedQueue = storedQueue
    /\ \A i \in 1..Len(pending) :
           pending[i].events # <<>> /\ batchStatus(pending[i]) # 400
    /\ \A i \in 1..Len(delivered) : delivered[i] # <<>>

\* C28: a flush of an empty queue, by any trigger and in any mode, issues no
\* send, leaves the guard clear and writes nothing; so every batch sent holds
\* at least one event, and the collector has no empty batch to reject.
C28_EmptyFlushIsNoOp == []EmptyQueueSendsNothing

\* A timer tick found the queue empty after a delivery and sent nothing.
C28_Witness ==
    /\ lastOp = "timer"
    /\ connectionStatus = "online"
    /\ eventQueue = <<>>
    /\ pending = <<>>
    /\ ~isSending
    /\ delivered # <<>>

\* C29: in every reachable state the session record has
\* lastActivity >= startTime, and so has the record in storage: after
\* creation, observations, activity, timer-driven expiry and after a stored
\* session is taken over at construction (the clock never goes back).
C29_LastActivityNotBeforeStart ==
    /\ sessionData.lastActivity >= sessionData.startTime
    /\ storedSession.kind = "record"
         => storedSession.value.lastActivity >= storedSession.value.startTime

\* An activity signal, some time into the session, moved lastActivity past
\* startTime, in the instance and in storage.
C29_Witness ==
    /\ lastOp = "activity"
    /\ sessionData.lastActivity > sessionData.startTime
    /\ sessionData.lastActivity = now
    /\ storedSession = JSONstringifySession(sessionData)

\* The record createNewSession makes at this moment.
NewSession == [id |-> sessionSeq + 1, startTime |-> now, lastActivity |-> now,
               pageviews |-> 0, events |-> 0]

\* C30: in a running instance the session id changes only when the timer's
\* check finds now - lastActivity above the timeout, and then the record is
\* replaced by one with a new id, startTime = lastActivity = now and both
\* counters zero; a check that finds the gap at or below the timeout changes
\* nothing; an activity signal refreshes lastActivity only, an observation
\* refreshes it and counts itself, and neither starts a session.
C30_IdChangesOnlyOnExpiry ==
    [][/\ sessionData'.id # sessionData.id
           => /\ lastOp' = "sessionTimer"
              /\ now - sessionData.lastActivity > sessionTimeoutOf(S)
       /\ lastOp' = "sessionTimer"
           => sessionData' = IF now - sessionData.lastActivity > sessionTimeoutOf(S)
                             THEN NewSession
                             ELSE sessionData
       /\ lastOp' = "activity"
           => sessionData' = [sessionData EXCEPT !.lastActivity = now]
       /\ lastOp' = "trackEvent"
           => sessionData' = [sessionData EXCEPT !.lastActivity = now, !.events = @ + 1]
       /\ lastOp' = "trackPageview"
           => sessionData' = [sessionData EXCEPT !.lastActivity = now,
                                                !.pageviews = @ + 1]]_vars

\* The timer has replaced a session in which an observation was counted: the
\* record is new, stamped with the present, its counters zero.
C30_Witness ==
    /\ lastOp = "sessionTimer"
    /\ nextId > 1
    /\ sessionData.startTime = now
    /\ sessionData.lastActivity = now
    /\ sessionData.pageviews = 0
    /\ sessionData.events = 0
    /\ sessionData.id = sessionSeq

\* The instance's fields: the state without the two storage keys.
InMemory(s) == [s EXCEPT !.storedQueue = StoredAbsent, !.storedSession = SessionAbsent]

\* C23: a storage write that fails during an enqueue, a flush, a re-queue or
\* a session update raises nothing and leaves the instance's fields (queue,
\* request in flight, guard, session record, timers) exactly as the same
\* operation leaves them when the write succeeds.
C23_WriteFailureChangesNothingInMemory ==
    /\ thrown = "none"
    /\ \A d \in Draws :
           LET e == InMemory(trackEvent(S, d, TRUE, TRUE))
               v == InMemory(trackPageview(S, d, TRUE, TRUE))
           IN  \A w1 \in BOOLEAN, w2 \in BOOLEAN :
                   /\ InMemory(trackEvent(S, d, w1, w2)) = e
                   /\ InMemory(trackPageview(S, d, w1, w2)) = v
    /\ \A u \in BOOLEAN :
           InMemory(flushEvents(S, u, FALSE)) = InMemory(flushEvents(S, u, TRUE))
    /\ \A i \in 1..Len(pending), o \in {"ok", "http_error", "network_error"} :
           InMemory(flushResolved(S, i, o, FALSE)) = InMemory(flushResolved(S, i, o, TRUE))
    /\ InMemory(updateSession(S, FALSE)) = InMemory(updateSession(S, TRUE))
    /\ InMemory(sessionCheck(S, FALSE)) = InMemory(sessionCheck(S, TRUE))

\* Over a storage that refuses every write, an observation was counted and
\* queued, its batch was sent, failed and was put back.
C23_Witness ==
    /\ storedQueue = StoredUnavailable
    /\ storedSession = SessionUnavailable
    /\ lastOp = "resolve_requeued"
    /\ sessionData.events >= 1
    /\ eventQueue # <<>>
    /\ ~isSending

\* C22: the userId of an instance never changes after construction and every
\* request it sends carries it; construction over a storage that holds an id
\* takes that id and leaves the storage as it is; over a storage without one,
\* or one whose reads and writes fail, construction completes without an
\* error with a newly generated id, which it stores if the storage lets it.
C22_UserIdCreatedOnceAndKept ==
    /\ [](/\ \A i \in 1..Len(pending) : pending[i].userId = userId
          /\ Exists => userId # "")
    /\ [][Exists => userId' = userId]_vars
    /\ [][(lastOp' = "init" /\ tracker = "undefined" /\ thrown' # "SiteIdRequired")
            => /\ tracker' = "active"
               /\ thrown' = "none"
               /\ IF storedUserId.kind = "id" /\ storedUserId.id # ""
                  THEN userId' = storedUserId.id /\ storedUserId' = storedUserId
                  ELSE /\ userId' \notin {"", "u-stored"}
                       /\ storedUserId' = IF storedUserId.kind = "unavailable"
                                          THEN storedUserId
                                          ELSE UserStored(userId')]_vars

\* The instance took the stored id, a batch it sent with that id was
\* delivered and the next one, with the same id, is in flight.
C22_Witness ==
    /\ tracker = "active"
    /\ userId = "u-stored"
    /\ storedUserId = UserStored("u-stored")
    /\ delivered # <<>>
    /\ Len(pending) = 1
    /\ pending[1].userId = "u-stored"

\* ---------------------------------------------------------------- C21

StaysOnline == <>[](connectionStatus = "online")

\* C21 as stated: in auto mode, with the connection online from some point
\* on, every send resolving, sends succeeding again and again and the timer
\* ticking, every admitted event is eventually in a delivered batch.
C21_Original_EveryAdmittedEventDelivered ==
    StaysOnline => \A id \in 1..MaxEvents : (id < nextId) ~> (id \in Delivered)

\* C21: under the same conditions, every admitted event is eventually in a
\* delivered batch, or was in an unloading batch whose send failed.
C21_AdmittedDeliveredUnlessUnloadFailed ==
    StaysOnline => \A id \in 1..MaxEvents : (id < nextId) ~> (id \in Delivered \cup dropped)

\* Every admitted event was delivered, in one batch larger than the
\* threshold: the events had waited through an offline period or a failed
\* send, and the connection is back.
C21_Witness ==
    /\ lastOp = "resolve_ok"
    /\ connectionStatus = "online"
    /\ nextId = MaxEvents + 1
    /\ Len(delivered) = 1
    /\ delivered[1] = Admitted
    /\ Len(Admitted) > batchSizeOf(S)
    /\ eventQueue = <<>>
    /\ dropped = {}

\* ---------------------------------------------------------------- C31

\* What the session key may hold when a new instance is constructed now: what
\* it holds, nothing, a string that is not JSON, or a failing getItem.
SessionsFound == {storedSession, SessionAbsent, SessionCorrupt, SessionUnavailable}

\* initializeSession of a new instance over the session key holding ss.
Restored(ss, writeOk) ==
    initializeSession(fieldInitializers(options, [found(S) EXCEPT !.session = ss]), writeOk)

ConstructionChecksExpiry ==
    \A ss \in SessionsFound, w \in BOOLEAN :
        LET r == Restored(ss, w)
        IN  IF ss.kind = "record" /\ now - ss.value.lastActivity <= sessionTimeoutOf(S)
            THEN /\ r.sessionData = ss.value
                 /\ r.sessionSeq = sessionSeq
                 /\ r.storedSession = ss
            ELSE /\ r.sessionData.id = sessionSeq + 1
                 /\ r.sessionData.id # ss.value.id
                 /\ r.sessionData.pageviews = 0
                 /\ r.sessionData.events = 0
                 /\ r.sessionData.startTime = now
                 /\ r.sessionData.lastActivity = now
                 /\ r.storedSession = IF w THEN JSONstringifySession(r.sessionData) ELSE ss

\* C31: a new instance constructed over a stored session whose lastActivity
\* is at most sessionTimeout old continues it, with its id and counters; over
\* an older one, or over a missing or unreadable session key, it starts a
\* session with a new id, zero counters and the current time.
C31_ConstructionContinuesOrRenews == []ConstructionChecksExpiry

\* An instance was constructed exactly sessionTimeout after the last activity
\* of the stored session 1 and continues it, its event counter included.
C31_Witness ==
    /\ lastOp = "init"
    /\ now = DefaultSessionTimeout
    /\ sessionData.id = 1
    /\ sessionData.events = 1
    /\ sessionSeq = 1

\* ---------------------------------------------------------------- C32

\* Front to back, the timestamps of q do not decrease.
NonDecreasing(q) ==
    \A i, j \in 1..Len(q) : i < j => timestamp[q[i]] <= timestamp[q[j]]

\* C32: every admitted event carries the time of its enqueue, which no later
\* step changes (a retry re-inserts the event as it is), and in every state
\* the timestamps of the live queue do not decrease from front to back, after
\* an enqueue, a rehydration or the re-insertion of a failed batch alike.
C32_QueueOrderedByEnqueueTime ==
    /\ [](/\ NonDecreasing(eventQueue)
          /\ Len(timestamp) = nextId - 1
          /\ \A id \in 1..Len(timestamp) : timestamp[id] <= now)
    /\ [][/\ \A id \in 1..Len(timestamp) : timestamp'[id] = timestamp[id]
          /\ nextId' # nextId => /\ nextId' = nextId + 1
                                 /\ timestamp'[nextId] = now]_vars

\* A rehydrated event of time 0 was sent and failed; meanwhile, later, a
\* second one was queued; the failed batch is back in front of it.
C32_Witness ==
    /\ lastOp = "resolve_requeued"
    /\ Len(eventQueue) >= 2
    /\ timestamp[eventQueue[1]] = 0
    /\ timestamp[eventQueue[Len(eventQueue)]] > 0
    /\ storedQueue = JSONstringify(eventQueue)

\* ---------------------------------------------------------------- C33

\* C33: the envelope of a batch is built when the flush sends: its sessionId
\* and the session id in its commonParams are the id of the session current
\* at that moment, and its timestamps are the time of the send, whatever
\* session and time its events were queued in.
C33_EnvelopeTakenAtSendTime ==
    [][Len(pending') > Len(pending)
         => LET r == pending'[Len(pending')]
            IN  /\ r.sessionId = sessionData.id
                /\ r.sessionId = sessionData'.id
                /\ r.commonParams.session_id = r.sessionId
                /\ r.timestamp = now'
                /\ r.commonParams.ts = now']_vars

\* An event queued at time 0 in session 1 goes out, after that session
\* expired, in a batch that carries the id of the session that replaced it.
C33_Witness ==
    /\ Len(pending) = 1
    /\ sessionData.id > 1
    /\ pending[1].sessionId = sessionData.id
    /\ pending[1].commonParams.session_id = sessionData.id
    /\ \E i \in 1..Len(pending[1].events) :
           timestamp[pending[1].events[i]] < sessionData.startTime

\* ---------------------------------------------------------------- C34

\* C34: the resolution of a send, failed or not, issues no send and installs
\* no timer; and while a failed batch waits in the queue, the step that sends
\* it is a flush timer tick, an enqueue that reaches the batch size in auto
\* mode, the online listener, a flushEvents call, a switch from manual to
\* auto mode, or an unloading flush.
C34_NoAutonomousRetry ==
    [][/\ lastOp' \in ResolveOps
            => /\ Len(pending') = Len(pending) - 1
               /\ flushTimers' = flushTimers
               /\ flushInterval' = flushInterval
       /\ (retry.B # <<>> /\ Len(pending') > Len(pending))
            => \/ lastOp' = "timer"
               \/ /\ lastOp' \in TrackOps
                  /\ ~options.manualFlush
                  /\ Len(eventQueue) + 1 >= batchSizeOf(S)
               \/ lastOp' = "online"
               \/ lastOp' = "flushEvents"
               \/ lastOp' = "setManualFlush" /\ options.manualFlush /\ ~options'.manualFlush
               \/ lastOp' \in UnloadingOps]_vars

\* A send failed while the connection was up and auto mode on: its batch is
\* back in the queue, nothing is in flight, and the timer is what will send it.
C34_Witness ==
    /\ lastOp = "resolve_requeued"
    /\ connectionStatus = "online"
    /\ ~options.manualFlush
    /\ retry.B # <<>>
    /\ eventQueue = retry.B \o retry.C
    /\ pending = <<>>
    /\ ~isSending
    /\ flushTimers = 1

\* ---------------------------------------------------------------- C35

\* The delivered batches, one after the other, list events in admission order
\* (identities are handed out in admission order, rehydrated events first).
DeliveredInAdmissionOrder == Ascending(Flatten(delivered))

\* C35: the concatenation of the delivered batches, in the order of their
\* sends, is a subsequence of the admission order, so no event is in two
\* delivered batches; a batch is delivered while it is the one outstanding
\* send, so the order of delivery is the order of the sends.
C35_DeliveryOrderAcrossBatches ==
    /\ []DeliveredInAdmissionOrder
    /\ [][delivered' # delivered
            => /\ Len(pending) = 1
               /\ delivered' = Append(delivered, pending[1].events)]_vars

\* Two batches were delivered, and an event admitted between theirs is in
\* neither: a failed unloading flush dropped it.
C35_Witness ==
    /\ lastOp = "resolve_ok"
    /\ Len(delivered) = 2
    /\ \E d \in dropped :
           /\ \A e \in Range(delivered[1]) : e < d
           /\ \A e \in Range(delivered[2]) : d < e

\* ---------------------------------------------------------------- C36

\* C36 as stated: with enableOfflineTracking false no step writes the stored
\* queue, a new instance constructed over the storage starts with an empty
\* queue whatever the stored queue holds, and no stored event is ever sent.
C36_Original_MirrorUnusedWhenDisabled ==
    /\ [][~options.enableOfflineTracking => storedQueue' = storedQueue]_vars
    /\ [](~options.enableOfflineTracking
            => /\ Rehydrated = <<>>
               /\ Range(storedQueue.items) \cap (InFlight \cup Delivered) = {})

\* ---------------------------------------------------------------- C37

Failures == {"http_error", "network_error"}

\* C37: a send issued by the exported flushEvents() is not an unloading one;
\* when it fails, its batch is back in the queue in front of the events
\* queued meanwhile, and the promise of the call is fulfilled, not rejected;
\* so an application that only flushes this way never has an event dropped.
C37_ManualFlushFailureLosesNothing ==
    /\ [][Len(pending') > Len(pending)
            => /\ lastOp' = "flushEvents"
               /\ ~pending'[Len(pending')].unloading]_vars
    /\ [][lastOp' \in ResolveOps \ {"resolve_ok"}
            => /\ lastOp' = "resolve_requeued"
               /\ eventQueue' = pending[1].events \o eventQueue]_vars
    /\ [](/\ dropped = {}
          /\ Range(eventQueue) \cup InFlight \cup Delivered = Range(Admitted)
          /\ \A o \in Failures : flushSettled(o) = "fulfilled")

\* A flushEvents() call sent one event, a second was queued during the send,
\* the send failed, and the queue holds both, the failed one first.
C37_Witness ==
    /\ options.manualFlush
    /\ lastOp = "resolve_requeued"
    /\ retry.B # <<>>
    /\ retry.C # <<>>
    /\ eventQueue = retry.B \o retry.C
    /\ dropped = {}

\* ---------------------------------------------------------------- C38

\* What the facade answers while it holds no tracker: the default status, the
\* site-id error for an init without siteId, and no error for a valid init.
UninitializedAnswers ==
    tracker = "undefined"
      => /\ exportedGetQueueStatus(tracker, S)
              = [queueLength |-> 0, events |-> <<>>, sameArray |-> FALSE,
                 connectionStatus |-> "online", manualFlush |-> FALSE]
         /\ \A opts \in FacadeOptions :
                init(tracker, opts) = IF opts.siteId = "" THEN "SiteIdRequired" ELSE "none"

\* C38: an init that fails for a missing siteId leaves the facade without a
\* tracker and changes nothing, and a valid init then succeeds; cleanup with
\* no tracker does nothing; cleanup with a tracker leaves the facade without
\* one, after which the tracking calls throw not-initialized and a valid init
\* succeeds again; getQueueStatus with no tracker returns the default status.
C38_FacadeLifecycle ==
    /\ []UninitializedAnswers
    /\ [][/\ (lastOp' = "init" /\ tracker = "undefined")
              => \/ /\ thrown' = "SiteIdRequired"
                    /\ UNCHANGED <<tracker, instanceVars, cleanedUp>>
                 \/ /\ thrown' = "none"
                    /\ tracker' = "active"
                    /\ options'.siteId # ""
                    /\ ~cleanedUp'
          /\ (lastOp' = "cleanup" /\ tracker = "undefined")
              => /\ thrown' = "none"
                 /\ UNCHANGED <<tracker, instanceVars, delivered, dropped, cleanedUp>>
          /\ (lastOp' = "cleanup" /\ tracker = "active")
              => /\ tracker' = "undefined"
                 /\ thrown' = "none"
          /\ (lastOp' \in ExportedCalls /\ tracker = "undefined")
              => /\ thrown' = "NotInitialized"
                 /\ UNCHANGED <<tracker, instanceVars, delivered, dropped, cleanedUp>>]_vars

\* A valid init has just succeeded on a facade whose earlier tracker
\* delivered a batch and was cleaned up.
C38_Witness ==
    /\ lastOp = "init"
    /\ thrown = "none"
    /\ tracker = "active"
    /\ ~cleanedUp
    /\ delivered # <<>>
    /\ pending = <<>>

\* ---------------------------------------------------------------- C39

\* The answer of /pixel to the n-th request of a browser's count.
CountedAs(n) ==
    /\ analyticsData.hits = (IF n < 3 THEN n ELSE 3)
    /\ analyticsData.bounce = (IF n = 1 THEN 1 ELSE IF n = 2 THEN -1 ELSE 0)
    /\ analyticsData.new_visitor = (IF n = 1 THEN 1 ELSE 0)

\* C39: the n-th /pixel request of a browser that echoes each Last-Modified
\* within one day is counted as hit min(n, 3), so the hit counts run 1, 2, 3,
\* 3, ..., stay in 1..3 and never decrease within the day; bounce runs 1, -1,
\* 0, 0, ...; new_visitor is 1 exactly on the first hit; and a request with no
\* header, with text that is no date or with a date of a previous day is
\* counted as hit 1.
C39_CookielessHitCounter ==
    /\ [](lastOp = "pixel" => /\ CountedAs(requests)
                              /\ analyticsData.hits \in 1..3
                              /\ lastModified =
                                     toUTCString(DateOf(today, analyticsData.hits)))
    /\ [][Pixel =>
            /\ (\/ lastModified \in {NoHeader, GarbledHeader}
                \/ lastModified.day < today) => analyticsData'.hits = 1
            /\ (lastModified.kind = "text" /\ lastModified.day = today)
                 => /\ analyticsData'.hits >= lastModified.sec
                    /\ analyticsData'.hits =
                         (IF lastModified.sec < 3 THEN lastModified.sec + 1 ELSE 3)]_vars

\* The browser's fourth echoing request of a later day is counted as hit 3,
\* after the count restarted when the day changed.
C39_Witness ==
    /\ lastOp = "pixel"
    /\ today = 1
    /\ requests = 4
    /\ analyticsData = [hits |-> 3, new_visitor |-> 0, bounce |-> 0]

====
